---- MODULE Spec2Model ----
(***************************************************************************)
(* A model of the Pandemic X86 codec: the byte stream (X86ByteStream.py),  *)
(* the ModR/M codec as exercised by TestModRM16/TestModRM32, the type      *)
(* checker (X86TypeChecker.py) and the encoder (X86Encoder.py) working on  *)
(* the encode table (X86EncodeTable.py) and the decode table               *)
(* (X86DecodeTable.py).                                                    *)
(*                                                                         *)
(* 32-bit quantities are pairs <<hi, lo>> of 16-bit halves, so that the    *)
(* arithmetic modulo 2^32 of the source is kept exactly.                   *)
(***************************************************************************)
EXTENDS Integers, Sequences, FiniteSets, TLC

VARIABLES
    bytes,      \* StreamObj.bytes: the list the stream reads from
    pos,        \* StreamObj.pos
    origpos,    \* StreamObj.origpos
    sres,       \* outcome of the last stream operation
    ncalls,     \* successful Byte() reads since construction or the last SetPos
    mt,         \* TestModRM16/32.one_iteration: what the last iteration chose and saw
    encoder,    \* the members of the X86Encoder object
    eres,       \* outcome of the last encoder or type checker operation
    check_sizes \* X86TypeChecker.check_sizes of the type checker in use

svars == <<bytes, pos, origpos, sres, ncalls>>

tvars == <<mt, encoder, eres, check_sizes>>

vars == <<bytes, pos, origpos, sres, ncalls, mt, encoder, eres, check_sizes>>

None == "None"

----------------------------------------------------------------------------
(* Arithmetic on 8, 16 and 32 bit values                                   *)

W8 == 16 * 16
W16 == W8 * W8

\* A 32-bit value from a number below 2^16.
U32(n) == <<0, n>>

Add32(x, y) ==
    LET lo == x[2] + y[2]
        hi == x[1] + y[1] + (lo \div W16)
    IN  <<hi % W16, lo % W16>>

Sub32(x, y) ==
    LET lo == x[2] - y[2] + W16
        hi == x[1] - y[1] + W16 - 1 + (lo \div W16)
    IN  <<hi % W16, lo % W16>>

\* x > 0xFFFF
Above16(x) == x[1] > 0

----------------------------------------------------------------------------
(* X86ByteStream.StreamObj                                                 *)

\* Length of the list a stream is built on.
StreamLen == 18
\* SetPos is called with addresses 0..MaxEa.
MaxEa == 4

\* "if self.pos-self.origpos >= 16: raise InvalidInstruction()"
ByteCap == 16

\* The contents of the streams the model reads: two different lists.
StreamBytes(k) == [i \in 1..StreamLen |-> (k * 97 + i * 37) % W8]

\* GetByteInternal: self.bytes[self.pos], an IndexError past the end.
GetByteInternal(bs, p) ==
    IF p < Len(bs) THEN [exc |-> "none", val |-> bs[p + 1]]
                   ELSE [exc |-> "IndexError", val |-> 0]

\* Byte(): the length check, then GetByteInternal, then pos + 1.
\* The result carries the new position.
Byte(bs, p, o) ==
    LET Read(b) ==
            IF b.exc # "none"
            THEN [exc |-> b.exc, val |-> 0, pos |-> p]
            ELSE [exc |-> "none", val |-> b.val, pos |-> p + 1]
    IN  IF p - o >= ByteCap
        THEN [exc |-> "InvalidInstruction", val |-> 0, pos |-> p]
        ELSE Read(GetByteInternal(bs, p))

\* A Word() that puts the first byte read in the high half.
Word_BigEndian(bs, p, o) ==
    LET Second(b0, b1) ==
            IF b1.exc # "none" THEN b1
            ELSE [exc |-> "none", val |-> b0.val * W8 + b1.val, pos |-> b1.pos]
        First(b0) == IF b0.exc # "none" THEN b0 ELSE Second(b0, Byte(bs, b0.pos, o))
    IN  First(Byte(bs, p, o))

\* Word(): two Byte() calls, (b1 << 8) | b0.
Word(bs, p, o) ==
    LET Second(b0, b1) ==
            IF b1.exc # "none" THEN b1
            ELSE [exc |-> "none", val |-> b1.val * W8 + b0.val, pos |-> b1.pos]
        First(b0) == IF b0.exc # "none" THEN b0 ELSE Second(b0, Byte(bs, b0.pos, o))
    IN  First(Byte(bs, p, o))

\* A Dword() that reads only one word and zero-extends it.
Dword_OneWord(bs, p, o) ==
    LET First(w0) ==
            IF w0.exc # "none" THEN [exc |-> w0.exc, val |-> <<0, 0>>, pos |-> w0.pos]
            ELSE [exc |-> "none", val |-> <<0, w0.val>>, pos |-> w0.pos]
    IN  First(Word(bs, p, o))

\* A Dword() that puts the first word read in the high half.
Dword_HighFirst(bs, p, o) ==
    LET Second(w0, w1) ==
            IF w1.exc # "none" THEN [exc |-> w1.exc, val |-> <<0, 0>>, pos |-> w1.pos]
            ELSE [exc |-> "none", val |-> <<w0.val, w1.val>>, pos |-> w1.pos]
        First(w0) ==
            IF w0.exc # "none" THEN [exc |-> w0.exc, val |-> <<0, 0>>, pos |-> w0.pos]
            ELSE Second(w0, Word(bs, w0.pos, o))
    IN  First(Word(bs, p, o))

\* Dword(): two Word() calls, (w1 << 16) | w0, kept as <<w1, w0>>.
Dword(bs, p, o) ==
    LET Second(w0, w1) ==
            IF w1.exc # "none" THEN [exc |-> w1.exc, val |-> <<0, 0>>, pos |-> w1.pos]
            ELSE [exc |-> "none", val |-> <<w1.val, w0.val>>, pos |-> w1.pos]
        First(w0) ==
            IF w0.exc # "none" THEN [exc |-> w0.exc, val |-> <<0, 0>>, pos |-> w0.pos]
            ELSE Second(w0, Word(bs, w0.pos, o))
    IN  First(Word(bs, p, o))

----------------------------------------------------------------------------
(* Register enumerations (X86MetaData.py)                                  *)

R16List == <<"Ax", "Cx", "Dx", "Bx", "Sp", "Bp", "Si", "Di">>
R32List == <<"Eax", "Ecx", "Edx", "Ebx", "Esp", "Ebp", "Esi", "Edi">>

\* EnumElt.IntValue(): the 0-based ordinal of an element in its enumeration.
IntValue(list, e) == (CHOOSE i \in 1..Len(list) : list[i] = e) - 1

\* The element of an enumeration with a given ordinal.
EltOf(list, n) == list[n + 1]

\* Numbers that may be absent or wider than 16 bits (displacements, immediate
\* values, addresses) are 32-bit pairs <<hi, lo>>; an absent one is <<>>.
NoneV == <<>>

\* An 8-bit value sign-extended to 16 and to 32 bits.
SignExt8To16(v) == IF v < 128 THEN <<0, v>> ELSE <<0, W16 - W8 + v>>
SignExt8To32(v) == IF v < 128 THEN <<0, v>> ELSE <<W16 - 1, W16 - W8 + v>>

\* Does a 16-bit / 32-bit value fit a sign-extended byte?
Fits8In16(d) == d[2] < 128 \/ d[2] >= W16 - 128
Fits8In32(d) == (d[1] = 0 /\ d[2] < 128) \/ (d[1] = W16 - 1 /\ d[2] >= W16 - 128)

\* little_endian_bytes(imm, n), n in 1, 2, 4: the n low bytes, lowest first.
little_endian_bytes(v, n) ==
    LET lo == <<v[2] % W8, (v[2] \div W8) % W8>>
        hi == <<v[1] % W8, (v[1] \div W8) % W8>>
    IN  IF n = 1 THEN <<lo[1]>> ELSE IF n = 2 THEN lo ELSE lo \o hi

----------------------------------------------------------------------------
(* ModRM16 (X86ModRM.py)                                                   *)

\* The eight 16-bit address forms, indexed by R/M.
modrm_16 == << <<"Bx", "Si">>, <<"Bx", "Di">>, <<"Bp", "Si">>, <<"Bp", "Di">>,
               <<"Si", None>>, <<"Di", None>>, <<"Bp", None>>, <<"Bx", None>> >>

\* A ModR/M object before anything is stored in it.  Disp holds the stored
\* displacement (an 8-bit one unextended); sib says that a SIB byte follows.
NewModRM == [MOD |-> 0, GGG |-> 0, RM |-> 0, Disp |-> <<0, 0>>,
             sib |-> FALSE, SCALE |-> 0, INDEX |-> 0, BASE |-> 0]

\* ModRM16.EncodeFromParts(base, index, disp)
EncodeFromParts16(b, sr, d) ==
    IF b = None /\ sr = None
    THEN [NewModRM EXCEPT !.MOD = 0, !.RM = 6, !.Disp = IF d = NoneV THEN <<0, 0>> ELSE d]
    ELSE LET rm == (CHOOSE i \in 1..8 : modrm_16[i] = <<b, sr>>) - 1
             nodisp == d = NoneV \/ d = <<0, 0>>
         IN  IF nodisp /\ rm # 6 THEN [NewModRM EXCEPT !.MOD = 0, !.RM = rm]
             ELSE IF nodisp THEN [NewModRM EXCEPT !.MOD = 1, !.RM = rm]
             ELSE IF Fits8In16(d)
                  THEN [NewModRM EXCEPT !.MOD = 1, !.RM = rm, !.Disp = <<0, d[2] % W8>>]
                  ELSE [NewModRM EXCEPT !.MOD = 2, !.RM = rm, !.Disp = d]

\* ModRM16.Interpret(): <<base, index, disp>> (the GGG field is left out).
Interpret16(m) ==
    IF m.MOD = 0 /\ m.RM = 6 THEN <<None, None, m.Disp>>
    ELSE LET f == modrm_16[m.RM + 1]
         IN  IF m.MOD = 0 THEN <<f[1], f[2], NoneV>>
             ELSE IF m.MOD = 1 THEN <<f[1], f[2], SignExt8To16(m.Disp[2])>>
             ELSE <<f[1], f[2], m.Disp>>

ModRMByte(m) == m.MOD * 64 + m.GGG * 8 + m.RM

\* ModRM16.Encode(): the ModR/M byte and the displacement bytes.
Encode16(m) ==
    <<ModRMByte(m)>> \o
    (IF m.MOD = 0 /\ m.RM = 6 THEN little_endian_bytes(m.Disp, 2)
     ELSE IF m.MOD = 1 THEN little_endian_bytes(m.Disp, 1)
     ELSE IF m.MOD = 2 THEN little_endian_bytes(m.Disp, 2)
     ELSE <<>>)

\* ModRM16.Decode(stream): reads through StreamObj; the result carries the
\* exception, if any, and the position reached.
Decode16(bs, p, o) ==
    LET Fields(b) ==
            [NewModRM EXCEPT !.MOD = b.val \div 64, !.GGG = (b.val \div 8) % 8,
                             !.RM = b.val % 8]
        WithDisp(m, r) == [exc |-> r.exc, m |-> [m EXCEPT !.Disp = <<0, r.val>>], pos |-> r.pos]
        Rest(m, q) ==
            IF (m.MOD = 0 /\ m.RM = 6) \/ m.MOD = 2 THEN WithDisp(m, Word(bs, q, o))
            ELSE IF m.MOD = 1 THEN WithDisp(m, Byte(bs, q, o))
            ELSE [exc |-> "none", m |-> m, pos |-> q]
        First(b) ==
            IF b.exc # "none" THEN [exc |-> b.exc, m |-> NewModRM, pos |-> b.pos]
            ELSE Rest(Fields(b), b.pos)
    IN  First(Byte(bs, p, o))

----------------------------------------------------------------------------
(* ModRM32 (X86ModRM.py)                                                   *)

\* Bases that cannot be encoded without a displacement byte.
NeedsDisp32(b) == b \in {"Ebp", "Esp"}

\* The MOD and displacement chosen for a base that is present.
ModDisp32(m, b, d) ==
    LET nodisp == d = NoneV \/ d = <<0, 0>>
    IN  IF nodisp /\ ~NeedsDisp32(b) THEN [m EXCEPT !.MOD = 0]
        ELSE IF nodisp THEN [m EXCEPT !.MOD = 1]
        ELSE IF Fits8In32(d) THEN [m EXCEPT !.MOD = 1, !.Disp = <<0, d[2] % W8>>]
        ELSE [m EXCEPT !.MOD = 2, !.Disp = d]

\* ModRM32.EncodeFromParts(base, index, scale, disp)
EncodeFromParts32(b, sr, sf, d) ==
    LET d32 == IF d = NoneV THEN <<0, 0>> ELSE d
    IN  IF b = None /\ sr = None
        THEN [NewModRM EXCEPT !.MOD = 0, !.RM = 5, !.Disp = d32]
        ELSE IF sr = None /\ b # "Esp"
        THEN ModDisp32([NewModRM EXCEPT !.RM = IntValue(R32List, b)], b, d)
        ELSE LET m == [NewModRM EXCEPT !.RM = 4, !.sib = TRUE,
                           !.SCALE = IF sr = None THEN 0 ELSE sf,
                           !.INDEX = IF sr = None THEN 4 ELSE IntValue(R32List, sr)]
             IN  IF b = None
                 THEN [m EXCEPT !.MOD = 0, !.BASE = 5, !.Disp = d32]
                 ELSE ModDisp32([m EXCEPT !.BASE = IntValue(R32List, b)], b, d)

\* ModRM32.Interpret(): <<base, index, scale, disp>> (GGG left out).
Interpret32(m) ==
    LET disp == IF m.MOD = 1 THEN SignExt8To32(m.Disp[2])
                ELSE IF m.MOD = 2 THEN m.Disp ELSE NoneV
    IN  IF ~m.sib
        THEN IF m.MOD = 0 /\ m.RM = 5 THEN <<None, None, 0, m.Disp>>
             ELSE <<EltOf(R32List, m.RM), None, 0, disp>>
        ELSE LET idx == IF m.INDEX = 4 THEN None ELSE EltOf(R32List, m.INDEX)
                 sc == IF m.INDEX = 4 THEN 0 ELSE m.SCALE
             IN  IF m.MOD = 0 /\ m.BASE = 5 THEN <<None, idx, sc, m.Disp>>
                 ELSE <<EltOf(R32List, m.BASE), idx, sc, disp>>

SIBByte(m) == m.SCALE * 64 + m.INDEX * 8 + m.BASE

\* Is a 32-bit displacement encoded after the ModR/M (and SIB)?
HasDisp32(m) ==
    \/ m.MOD = 2
    \/ m.MOD = 0 /\ ~m.sib /\ m.RM = 5
    \/ m.MOD = 0 /\ m.sib /\ m.BASE = 5

\* ModRM32.Encode(): ModR/M, SIB and displacement bytes.
Encode32(m) ==
    <<ModRMByte(m)>> \o (IF m.sib THEN <<SIBByte(m)>> ELSE <<>>) \o
    (IF HasDisp32(m) THEN little_endian_bytes(m.Disp, 4)
     ELSE IF m.MOD = 1 THEN little_endian_bytes(m.Disp, 1)
     ELSE <<>>)

\* ModRM32.Decode(stream)
Decode32(bs, p, o) ==
    LET Fields(b) ==
            [NewModRM EXCEPT !.MOD = b.val \div 64, !.GGG = (b.val \div 8) % 8,
                             !.RM = b.val % 8]
        WithSIB(m0, s) ==
            [m0 EXCEPT !.sib = TRUE, !.SCALE = s.val \div 64,
                       !.INDEX = (s.val \div 8) % 8, !.BASE = s.val % 8]
        WithDisp(m, r, v) == [exc |-> r.exc, m |-> [m EXCEPT !.Disp = v], pos |-> r.pos]
        Disp32(m, w) == WithDisp(m, w, w.val)
        Disp8(m, c) == WithDisp(m, c, <<0, c.val>>)
        Rest(m, q) ==
            IF m.MOD # 3 /\ HasDisp32(m) THEN Disp32(m, Dword(bs, q, o))
            ELSE IF m.MOD = 1 THEN Disp8(m, Byte(bs, q, o))
            ELSE [exc |-> "none", m |-> m, pos |-> q]
        AfterSIB(m0, s) ==
            IF s.exc # "none" THEN [exc |-> s.exc, m |-> NewModRM, pos |-> s.pos]
            ELSE Rest(WithSIB(m0, s), s.pos)
        AfterModRM(m0, q) ==
            IF m0.MOD # 3 /\ m0.RM = 4 THEN AfterSIB(m0, Byte(bs, q, o)) ELSE Rest(m0, q)
        First(b) ==
            IF b.exc # "none" THEN [exc |-> b.exc, m |-> NewModRM, pos |-> b.pos]
            ELSE AfterModRM(Fields(b), b.pos)
    IN  First(Byte(bs, p, o))

----------------------------------------------------------------------------
(* Operands (X86Internal.py) and abstract operand types                    *)

R8List == <<"Al", "Cl", "Dl", "Bl", "Ah", "Ch", "Dh", "Bh">>

\* Operands: a register of a class, an immediate of a width, a memory
\* expression, a jump target.  Field k is the operand's Python type.
Reg(k, r) == [k |-> k, r |-> r]
Imm(k, v) == [k |-> k, v |-> v]
\* MemExpr.__init__ normalises a displacement of 0 to None.
Mem(k, seg, size, b, sr, sf, d) ==
    [k |-> k, seg |-> seg, size |-> size, base |-> b, index |-> sr, scale |-> sf,
     disp |-> IF d = <<0, 0>> THEN NoneV ELSE d]
JccTarget(taken, nottaken) == [k |-> "JccTarget", taken |-> taken, nottaken |-> nottaken]

IsRegister(op) == op.k \in {"Gb", "Gw", "Gd"}
IsMemExpr(op) == op.k \in {"Mem16", "Mem32"}

RegList(k) == IF k = "Gb" THEN R8List ELSE IF k = "Gw" THEN R16List ELSE R32List

\* The default segment of a memory expression.
DefaultSeg(m) == IF m.base \in {"Esp", "Ebp", "Sp", "Bp"} THEN "SS" ELSE "DS"

\* AOTDL nodes.
Exact(v) == [t |-> "Exact", v |-> v]
GPart(k) == [t |-> "GPart", k |-> k]
RegOrMem(reg, mem) == [t |-> "RegOrMem", reg |-> reg, mem |-> mem]
ImmEnc(k) == [t |-> "ImmEnc", k |-> k]
SignedImm(k) == [t |-> "SignedImm", k |-> k]
SizePrefix(yes, no) == [t |-> "SizePrefix", yes |-> yes, no |-> no]

\* AOTtoAOTDL, for the abstract operand types of the encodings modelled.
AOTtoAOTDL(aot) ==
    CASE aot = "OEb"  -> RegOrMem("Gb", "Mb")
      [] aot = "OEv"  -> SizePrefix(RegOrMem("Gw", "Mw"), RegOrMem("Gd", "Md"))
      [] aot = "OGb"  -> GPart("Gb")
      [] aot = "OGv"  -> SizePrefix(GPart("Gw"), GPart("Gd"))
      [] aot = "OAL"  -> Exact(Reg("Gb", "Al"))
      [] aot = "OrAX" -> SizePrefix(Exact(Reg("Gw", "Ax")), Exact(Reg("Gd", "Eax")))
      [] aot = "OIb"  -> ImmEnc("Ib")
      [] aot = "OIz"  -> SizePrefix(ImmEnc("Iw"), ImmEnc("Id"))
      [] aot = "OIbv" -> SizePrefix(SignedImm("Iw"), SignedImm("Id"))
      [] aot = "OJz"  -> ImmEnc("JccTarget")
      [] aot = "OJb"  -> SignedImm("JccTarget")
      [] aot = "OMb"  -> RegOrMem(None, "Mb")
      [] aot = "OMw"  -> RegOrMem(None, "Mw")
      [] aot = "OMd"  -> RegOrMem(None, "Md")
      [] aot = "OFPEnv"     -> RegOrMem(None, "Mb")
      [] aot = "OFPEnvLow"  -> RegOrMem(None, "Mb")
      [] aot = "OSimdState" -> RegOrMem(None, "Mb")
      [] aot = "OES"  -> Exact(Reg("Seg", "ES"))
      [] aot = "OCS"  -> Exact(Reg("Seg", "CS"))
      [] aot = "OSS"  -> Exact(Reg("Seg", "SS"))
      [] aot = "ODS"  -> Exact(Reg("Seg", "DS"))
      [] aot = "OEw"  -> RegOrMem("Gw", "Mw")
      [] aot = "OGw"  -> GPart("Gw")
      [] aot = "OGz"  -> SizePrefix(GPart("Gw"), GPart("Gd"))
      [] aot = "OMa"  -> SizePrefix(RegOrMem(None, "Md"), RegOrMem(None, "Mq"))
      [] aot = "OMp"  -> SizePrefix(RegOrMem(None, "Md"), RegOrMem(None, "Mf"))

----------------------------------------------------------------------------
(* X86TypeChecker                                                          *)

\* TypeCheckInfo: each member None, or a value.  ok = FALSE stands for the
\* None a visit method returns when operand and AOTDL are incompatible.
TypeCheckInfo(sizeo, addro, sego) ==
    [ok |-> TRUE, sizeo |-> sizeo, addro |-> addro, sego |-> sego]
MATCHES == TypeCheckInfo(None, None, None)
NoInfo == [ok |-> FALSE, sizeo |-> None, addro |-> None, sego |-> None]

SizePFX(b, t) == [t EXCEPT !.sizeo = b]
AddrPFX(b, t) == [t EXCEPT !.addro = b]
SegPFX(sg, t) == [t EXCEPT !.sego = sg]

\* A memory case that reports neither a segment nor an address prefix.
MemInfo_NoPrefix(op) == AddrPFX("False", MATCHES)

\* visit_RegOrMem, memory case: the segment prefix if the segment is not the
\* default one, the address prefix iff the operand is a Mem16.
MemInfo(op) ==
    AddrPFX(IF op.k = "Mem16" THEN "True" ELSE "False",
            IF op.seg # DefaultSeg(op) THEN SegPFX(op.seg, MATCHES) ELSE MATCHES)

tc_visit_RegOrMem(op, m, cs) ==
    IF m.reg # None /\ op.k = m.reg THEN MATCHES
    ELSE IF m.mem # None /\ IsMemExpr(op) /\ (m.mem = op.size \/ cs # "True")
    THEN MemInfo(op)
    ELSE NoInfo

tc_visit_Exact(op, a) == IF op = a.v THEN MATCHES ELSE NoInfo

tc_visit_GPart(op, a) == IF op.k = a.k THEN MATCHES ELSE NoInfo

\* visit_Immediate_Immediate and visit_Immediate_JccTarget: same type as the archetype.
tc_visit_Immediate(op, a) == IF op.k = a.k THEN MATCHES ELSE NoInfo

\* A check of the immediate's class alone, whatever its value.
tc_visit_SignExtImm_AnyValue(op, a) == IF op.k = a.k THEN MATCHES ELSE NoInfo

\* visit_SignExtImm_Iw / visit_SignExtImm_Id, and visit_Immediate_JccTarget
\* for a SignedImm whose archetype is a JccTarget.
tc_visit_SignExtImm(op, a) ==
    IF a.k = "JccTarget" THEN (IF op.k = "JccTarget" THEN MATCHES ELSE NoInfo)
    ELSE IF a.k = "Iw" /\ op.k = "Iw" /\ (op.v[2] < 128 \/ op.v[2] >= W16 - 128) THEN MATCHES
    ELSE IF a.k = "Id" /\ op.k = "Id"
            /\ ((op.v[1] = 0 /\ op.v[2] < 128) \/ (op.v[1] = W16 - 1 /\ op.v[2] >= W16 - 128))
         THEN MATCHES
    ELSE NoInfo

\* visit of a node that is not a prefix switch (the dispatch of MakeMethodName).
tc_visit_Leaf(op, a, cs) ==
    CASE a.t = "Exact"     -> tc_visit_Exact(op, a)
      [] a.t = "GPart"     -> tc_visit_GPart(op, a)
      [] a.t = "RegOrMem"  -> tc_visit_RegOrMem(op, a, cs)
      [] a.t = "ImmEnc"    -> tc_visit_Immediate(op, a)
      [] a.t = "SignedImm" -> tc_visit_SignExtImm(op, a)

\* visit_SizePrefix: the yes member first (prefix required), else the no
\* member (prefix forbidden), else no match.
tc_visit_SizePrefix(op, z, cs) ==
    LET No(n) == IF n.ok THEN SizePFX("False", n) ELSE NoInfo
        Yes(y) == IF y.ok THEN SizePFX("True", y) ELSE No(tc_visit_Leaf(op, z.no, cs))
    IN  Yes(tc_visit_Leaf(op, z.yes, cs))

\* "lenient_sizes = set([OFPEnv,OFPEnvLow,OSimdState])"
lenient_sizes == {"OFPEnv", "OFPEnvLow", "OSimdState"}

\* A check that compares sizes whatever the abstract operand type.
CheckSizes_Always(aop) == "True"

\* "self.check_sizes = not aop in self.lenient_sizes"
CheckSizes(aop) == IF aop \in lenient_sizes THEN "False" ELSE "True"

\* check(aop, opnd): set check_sizes, then visit the operand with the AOTDL of
\* the abstract type; the visit reads the check_sizes just set.
check(aop, opnd) ==
    LET Visit(a, cs) ==
            IF a.t = "SizePrefix" THEN tc_visit_SizePrefix(opnd, a, cs)
            ELSE tc_visit_Leaf(opnd, a, cs)
    IN  Visit(AOTtoAOTDL(aop), CheckSizes(aop))

\* A combination that lets the later operand decide.
opcheck_Second(bo1, bo2) == IF bo2 = None THEN bo1 ELSE bo2

\* opcheck of reduce_typeinfo; "clash" stands for the X86TypeCheckError.
opcheck(bo1, bo2) ==
    IF bo1 = None THEN bo2
    ELSE IF bo2 = None THEN bo1
    ELSE IF bo1 = bo2 THEN bo1
    ELSE "clash"

reduce_typeinfo(t1, t2) ==
    LET Reduced(so, ao, sg) ==
            IF "clash" \in {so, ao, sg} THEN NoInfo ELSE TypeCheckInfo(so, ao, sg)
    IN  Reduced(opcheck(t1.sizeo, t2.sizeo), opcheck(t1.addro, t2.addro),
                opcheck(t1.sego, t2.sego))

\* The loop of TypeCheckInstruction_exn over operands i..len(aops); last_ti
\* not ok stands for a raised X86TypeCheckError.
RECURSIVE CheckOperands(_, _, _, _)
CheckOperands(ops, aops, i, last_ti) ==
    LET Rest(r) == IF ~r.ok THEN NoInfo ELSE CheckOperands(ops, aops, i + 1, r)
        Checked(ti) ==
            IF ~ti.ok THEN NoInfo
            ELSE IF i = 1 THEN Rest(ti)
            ELSE Rest(reduce_typeinfo(last_ti, ti))
    IN  IF i > Len(aops) THEN last_ti ELSE Checked(check(aops[i], ops[i]))

\* A check that does not compare the lengths: the operands that have an
\* abstract operand type are checked, the others are ignored.
TypeCheckInstruction_exn_NoLengthCheck(instr, aops) ==
    LET Result(last_ti) ==
            IF ~last_ti.ok
            THEN [exc |-> "X86TypeCheckError", val |-> <<FALSE, FALSE, None>>]
            ELSE [exc |-> "none",
                  val |-> <<last_ti.sizeo = "True", last_ti.addro = "True", last_ti.sego>>]
        Shorter(n) == IF n < Len(aops) THEN SubSeq(aops, 1, n) ELSE aops
    IN  IF Len(aops) = 0
        THEN [exc |-> "none", val |-> <<FALSE, FALSE, None>>]
        ELSE Result(CheckOperands(instr.ops, Shorter(Len(instr.ops)), 1, NoInfo))

\* TypeCheckInstruction_exn: [exc, val] where val = <<sizepfx, addrpfx, segpfx>>.
TypeCheckInstruction_exn(instr, aops) ==
    LET Result(last_ti) ==
            IF ~last_ti.ok
            THEN [exc |-> "X86TypeCheckError", val |-> <<FALSE, FALSE, None>>]
            ELSE [exc |-> "none",
                  val |-> <<last_ti.sizeo = "True", last_ti.addro = "True", last_ti.sego>>]
    IN  IF Len(aops) # Len(instr.ops)
        THEN [exc |-> "X86TypeCheckError", val |-> <<FALSE, FALSE, None>>]
        ELSE IF Len(aops) = 0
        THEN [exc |-> "none", val |-> <<FALSE, FALSE, None>>]
        ELSE Result(CheckOperands(instr.ops, aops, 1, NoInfo))

\* check_sizes after TypeCheckInstruction_exn(instr, aops) on a type checker
\* whose check_sizes was cs: the one the last check() call set, the loop
\* ending with the first operand that raises X86TypeCheckError.
check_sizes_after(cs, instr, aops) ==
    LET Fails(i) == ~CheckOperands(instr.ops, SubSeq(aops, 1, i), 1, NoInfo).ok
        Last(f) == IF f = {} THEN Len(aops) ELSE CHOOSE i \in f : \A j \in f : i <= j
    IN  IF Len(aops) # Len(instr.ops) \/ Len(aops) = 0 THEN cs
        ELSE CheckSizes(aops[Last({i \in 1..Len(aops) : Fails(i)})])

\* TypeCheckInstruction_opt: None (here ok = FALSE) when X86TypeCheckError was raised.
TypeCheckInstruction_opt(instr, aops) ==
    LET Caught(r) == [ok |-> r.exc # "X86TypeCheckError", val |-> r.val]
    IN  Caught(TypeCheckInstruction_exn(instr, aops))

----------------------------------------------------------------------------
(* X86EncodeTable                                                          *)

Ordinary(bytes_, ops) == [cls |-> "Ordinary", bytes |-> bytes_, ops |-> ops, ggg |-> 0]
Native16(bytes_, ops) == [cls |-> "Native16", bytes |-> bytes_, ops |-> ops, ggg |-> 0]
ModRMGroup(ggg, bytes_, ops) == [cls |-> "ModRMGroup", bytes |-> bytes_, ops |-> ops, ggg |-> ggg]

\* The assignments mnem_to_encodings[v(m)] = [...], in the order of the source:
\* a mnemonic and its candidates.
mnem_to_encodings_entries ==
    <<
    [mnem |-> "Daa", encs |-> <<Ordinary(<<39>>, <<>>)>>],
    [mnem |-> "Das", encs |-> <<Ordinary(<<47>>, <<>>)>>],
    [mnem |-> "Aaa", encs |-> <<Ordinary(<<55>>, <<>>)>>],
    [mnem |-> "Aas", encs |-> <<Ordinary(<<63>>, <<>>)>>],
    [mnem |-> "Add", encs |-> <<
         Ordinary(<<0>>, <<"OEb", "OGb">>),
         Ordinary(<<1>>, <<"OEv", "OGv">>),
         Ordinary(<<2>>, <<"OGb", "OEb">>),
         Ordinary(<<3>>, <<"OGv", "OEv">>),
         Ordinary(<<4>>, <<"OAL", "OIb">>),
         Ordinary(<<5>>, <<"OrAX", "OIz">>),
         ModRMGroup(0, <<128>>, <<"OEb", "OIb">>),
         ModRMGroup(0, <<129>>, <<"OEv", "OIz">>),
         ModRMGroup(0, <<131>>, <<"OEv", "OIbv">>)>>],
    [mnem |-> "Or", encs |-> <<
         Ordinary(<<8>>, <<"OEb", "OGb">>),
         Ordinary(<<9>>, <<"OEv", "OGv">>),
         Ordinary(<<10>>, <<"OGb", "OEb">>),
         Ordinary(<<11>>, <<"OGv", "OEv">>),
         Ordinary(<<12>>, <<"OAL", "OIb">>),
         Ordinary(<<13>>, <<"OrAX", "OIz">>),
         ModRMGroup(1, <<128>>, <<"OEb", "OIb">>),
         ModRMGroup(1, <<129>>, <<"OEv", "OIz">>),
         ModRMGroup(1, <<131>>, <<"OEv", "OIbv">>)>>],
    [mnem |-> "Adc", encs |-> <<
         Ordinary(<<16>>, <<"OEb", "OGb">>),
         Ordinary(<<17>>, <<"OEv", "OGv">>),
         Ordinary(<<18>>, <<"OGb", "OEb">>),
         Ordinary(<<19>>, <<"OGv", "OEv">>),
         Ordinary(<<20>>, <<"OAL", "OIb">>),
         Ordinary(<<21>>, <<"OrAX", "OIz">>),
         ModRMGroup(2, <<128>>, <<"OEb", "OIb">>),
         ModRMGroup(2, <<129>>, <<"OEv", "OIz">>),
         ModRMGroup(2, <<131>>, <<"OEv", "OIbv">>)>>],
    [mnem |-> "Sbb", encs |-> <<
         Ordinary(<<24>>, <<"OEb", "OGb">>),
         Ordinary(<<25>>, <<"OEv", "OGv">>),
         Ordinary(<<26>>, <<"OGb", "OEb">>),
         Ordinary(<<27>>, <<"OGv", "OEv">>),
         Ordinary(<<28>>, <<"OAL", "OIb">>),
         Ordinary(<<29>>, <<"OrAX", "OIz">>),
         ModRMGroup(3, <<128>>, <<"OEb", "OIb">>),
         ModRMGroup(3, <<129>>, <<"OEv", "OIz">>),
         ModRMGroup(3, <<131>>, <<"OEv", "OIbv">>)>>],
    [mnem |-> "And", encs |-> <<
         Ordinary(<<32>>, <<"OEb", "OGb">>),
         Ordinary(<<33>>, <<"OEv", "OGv">>),
         Ordinary(<<34>>, <<"OGb", "OEb">>),
         Ordinary(<<35>>, <<"OGv", "OEv">>),
         Ordinary(<<36>>, <<"OAL", "OIb">>),
         Ordinary(<<37>>, <<"OrAX", "OIz">>),
         ModRMGroup(4, <<128>>, <<"OEb", "OIb">>),
         ModRMGroup(4, <<129>>, <<"OEv", "OIz">>),
         ModRMGroup(4, <<131>>, <<"OEv", "OIbv">>)>>],
    [mnem |-> "Sub", encs |-> <<
         Ordinary(<<40>>, <<"OEb", "OGb">>),
         Ordinary(<<41>>, <<"OEv", "OGv">>),
         Ordinary(<<42>>, <<"OGb", "OEb">>),
         Ordinary(<<43>>, <<"OGv", "OEv">>),
         Ordinary(<<44>>, <<"OAL", "OIb">>),
         Ordinary(<<45>>, <<"OrAX", "OIz">>),
         ModRMGroup(5, <<128>>, <<"OEb", "OIb">>),
         ModRMGroup(5, <<129>>, <<"OEv", "OIz">>),
         ModRMGroup(5, <<131>>, <<"OEv", "OIbv">>)>>],
    [mnem |-> "Xor", encs |-> <<
         Ordinary(<<48>>, <<"OEb", "OGb">>),
         Ordinary(<<49>>, <<"OEv", "OGv">>),
         Ordinary(<<50>>, <<"OGb", "OEb">>),
         Ordinary(<<51>>, <<"OGv", "OEv">>),
         Ordinary(<<52>>, <<"OAL", "OIb">>),
         Ordinary(<<53>>, <<"OrAX", "OIz">>),
         ModRMGroup(6, <<128>>, <<"OEb", "OIb">>),
         ModRMGroup(6, <<129>>, <<"OEv", "OIz">>),
         ModRMGroup(6, <<131>>, <<"OEv", "OIbv">>)>>],
    [mnem |-> "Cmp", encs |-> <<
         Ordinary(<<56>>, <<"OEb", "OGb">>),
         Ordinary(<<57>>, <<"OEv", "OGv">>),
         Ordinary(<<58>>, <<"OGb", "OEb">>),
         Ordinary(<<59>>, <<"OGv", "OEv">>),
         Ordinary(<<60>>, <<"OAL", "OIb">>),
         Ordinary(<<61>>, <<"OrAX", "OIz">>),
         ModRMGroup(7, <<128>>, <<"OEb", "OIb">>),
         ModRMGroup(7, <<129>>, <<"OEv", "OIz">>),
         ModRMGroup(7, <<131>>, <<"OEv", "OIbv">>)>>],
    [mnem |-> "Inc", encs |-> <<
         Ordinary(<<64>>, <<"OeAX">>),
         Ordinary(<<65>>, <<"OeCX">>),
         Ordinary(<<66>>, <<"OeDX">>),
         Ordinary(<<67>>, <<"OeBX">>),
         Ordinary(<<68>>, <<"OeSP">>),
         Ordinary(<<69>>, <<"OeBP">>),
         Ordinary(<<70>>, <<"OeSI">>),
         Ordinary(<<71>>, <<"OeDI">>),
         ModRMGroup(0, <<254>>, <<"OEb">>),
         ModRMGroup(0, <<255>>, <<"OEv">>)>>],
    [mnem |-> "Dec", encs |-> <<
         Ordinary(<<72>>, <<"OeAX">>),
         Ordinary(<<73>>, <<"OeCX">>),
         Ordinary(<<74>>, <<"OeDX">>),
         Ordinary(<<75>>, <<"OeBX">>),
         Ordinary(<<76>>, <<"OeSP">>),
         Ordinary(<<77>>, <<"OeBP">>),
         Ordinary(<<78>>, <<"OeSI">>),
         Ordinary(<<79>>, <<"OeDI">>),
         ModRMGroup(1, <<254>>, <<"OEb">>),
         ModRMGroup(1, <<255>>, <<"OEv">>)>>],
    [mnem |-> "Push", encs |-> <<
         Ordinary(<<6>>, <<"OES">>),
         Ordinary(<<14>>, <<"OCS">>),
         Ordinary(<<22>>, <<"OSS">>),
         Ordinary(<<30>>, <<"ODS">>),
         Ordinary(<<80>>, <<"OrAXr8">>),
         Ordinary(<<81>>, <<"OrCXr9">>),
         Ordinary(<<82>>, <<"OrDXr10">>),
         Ordinary(<<83>>, <<"OrBXr11">>),
         Ordinary(<<84>>, <<"OrSPr12">>),
         Ordinary(<<85>>, <<"OrBPr13">>),
         Ordinary(<<86>>, <<"OrSIr14">>),
         Ordinary(<<87>>, <<"OrDIr15">>),
         Ordinary(<<104>>, <<"OIz">>),
         ModRMGroup(6, <<255>>, <<"OEv">>),
         Ordinary(<<15, 160>>, <<"OFS">>),
         Ordinary(<<15, 168>>, <<"OGS">>)>>],
    [mnem |-> "Pop", encs |-> <<
         Ordinary(<<7>>, <<"OES">>),
         Ordinary(<<23>>, <<"OSS">>),
         Ordinary(<<31>>, <<"ODS">>),
         Ordinary(<<88>>, <<"OrAXr8">>),
         Ordinary(<<89>>, <<"OrCXr9">>),
         Ordinary(<<90>>, <<"OrDXr10">>),
         Ordinary(<<91>>, <<"OrBXr11">>),
         Ordinary(<<92>>, <<"OrSPr12">>),
         Ordinary(<<93>>, <<"OrBPr13">>),
         Ordinary(<<94>>, <<"OrSIr14">>),
         Ordinary(<<95>>, <<"OrDIr15">>),
         ModRMGroup(0, <<143>>, <<"OEv">>),
         Ordinary(<<15, 161>>, <<"OFS">>),
         Ordinary(<<15, 169>>, <<"OGS">>)>>],
    [mnem |-> "Pushaw", encs |-> <<Native16(<<96>>, <<>>)>>],
    [mnem |-> "Pushad", encs |-> <<Ordinary(<<96>>, <<>>)>>],
    [mnem |-> "Popaw", encs |-> <<Native16(<<97>>, <<>>)>>],
    [mnem |-> "Popad", encs |-> <<Ordinary(<<97>>, <<>>)>>],
    [mnem |-> "Bound", encs |-> <<Ordinary(<<98>>, <<"OGv", "OMa">>)>>],
    [mnem |-> "Arpl", encs |-> <<Ordinary(<<99>>, <<"OEw", "OGw">>)>>],
    [mnem |-> "Imul", encs |-> <<
         Ordinary(<<105>>, <<"OGv", "OEv", "OIz">>),
         Ordinary(<<107>>, <<"OGv", "OEv", "OIb">>),
         ModRMGroup(5, <<246>>, <<"OEb">>),
         ModRMGroup(5, <<247>>, <<"OEv">>),
         Ordinary(<<15, 175>>, <<"OGv", "OEv">>)>>],
    [mnem |-> "Insb", encs |-> <<Ordinary(<<108>>, <<"OYb", "ODX">>)>>],
    [mnem |-> "Insw", encs |-> <<Native16(<<109>>, <<"OYw", "ODX">>)>>],
    [mnem |-> "Insd", encs |-> <<Ordinary(<<109>>, <<"OYd", "ODX">>)>>],
    [mnem |-> "Outsb", encs |-> <<Ordinary(<<110>>, <<"ODX", "OXb">>)>>],
    [mnem |-> "Outsw", encs |-> <<Native16(<<111>>, <<"ODX", "OXw">>)>>],
    [mnem |-> "Outsd", encs |-> <<Ordinary(<<111>>, <<"ODX", "OXd">>)>>],
    [mnem |-> "Test", encs |-> <<
         Ordinary(<<132>>, <<"OEb", "OGb">>),
         Ordinary(<<133>>, <<"OEv", "OGv">>),
         Ordinary(<<168>>, <<"OAL", "OIb">>),
         Ordinary(<<169>>, <<"OrAX", "OIz">>),
         ModRMGroup(0, <<246>>, <<"OEb", "OIb">>),
         ModRMGroup(0, <<247>>, <<"OEv", "OIz">>)>>],
    [mnem |-> "Xchg", encs |-> <<
         Ordinary(<<134>>, <<"OEb", "OGb">>),
         Ordinary(<<135>>, <<"OEv", "OGv">>),
         Ordinary(<<145>>, <<"OrAX", "OrCXr9">>),
         Ordinary(<<146>>, <<"OrAX", "OrDXr10">>),
         Ordinary(<<147>>, <<"OrAX", "OrBXr11">>),
         Ordinary(<<148>>, <<"OrAX", "OrSPr12">>),
         Ordinary(<<149>>, <<"OrAX", "OrBPr13">>),
         Ordinary(<<150>>, <<"OrAX", "OrSIr14">>),
         Ordinary(<<151>>, <<"OrAX", "OrDIr15">>)>>],
    [mnem |-> "Mov", encs |-> <<
         Ordinary(<<162>>, <<"OOb", "OAL">>),
         Ordinary(<<136>>, <<"OEb", "OGb">>),
         Ordinary(<<163>>, <<"OOv", "OrAX">>),
         Ordinary(<<137>>, <<"OEv", "OGv">>),
         Ordinary(<<160>>, <<"OAL", "OOb">>),
         Ordinary(<<138>>, <<"OGb", "OEb">>),
         Ordinary(<<161>>, <<"OrAX", "OOv">>),
         Ordinary(<<139>>, <<"OGv", "OEv">>),
         Ordinary(<<140>>, <<"OEv", "OSw">>),
         Ordinary(<<142>>, <<"OSw", "OEw">>),
         Ordinary(<<176>>, <<"OALR8L", "OIb">>),
         Ordinary(<<177>>, <<"OCLR9L", "OIb">>),
         Ordinary(<<178>>, <<"ODLR10L", "OIb">>),
         Ordinary(<<179>>, <<"OBLR11L", "OIb">>),
         Ordinary(<<180>>, <<"OAHR12L", "OIb">>),
         Ordinary(<<181>>, <<"OCHR13L", "OIb">>),
         Ordinary(<<182>>, <<"ODHR14L", "OIb">>),
         Ordinary(<<183>>, <<"OBHR15L", "OIb">>),
         Ordinary(<<184>>, <<"OrAXr8", "OIv">>),
         Ordinary(<<185>>, <<"OrCXr9", "OIv">>),
         Ordinary(<<186>>, <<"OrDXr10", "OIv">>),
         Ordinary(<<187>>, <<"OrBXr11", "OIv">>),
         Ordinary(<<188>>, <<"OrSPr12", "OIv">>),
         Ordinary(<<189>>, <<"OrBPr13", "OIv">>),
         Ordinary(<<190>>, <<"OrSIr14", "OIv">>),
         Ordinary(<<191>>, <<"OrDIr15", "OIv">>),
         ModRMGroup(0, <<198>>, <<"OEb", "OIb">>),
         ModRMGroup(0, <<199>>, <<"OEv", "OIz">>),
         Ordinary(<<15, 32>>, <<"ORd", "OCd">>),
         Ordinary(<<15, 33>>, <<"ORd", "ODd">>),
         Ordinary(<<15, 34>>, <<"OCd", "ORd">>),
         Ordinary(<<15, 35>>, <<"ODd", "ORd">>)>>],
    [mnem |-> "Lea", encs |-> <<Ordinary(<<141>>, <<"OGv", "OM">>)>>],
    [mnem |-> "Nop", encs |-> <<
         Ordinary(<<144>>, <<>>),
         ModRMGroup(0, <<15, 13>>, <<"OEv">>),
         ModRMGroup(0, <<15, 31>>, <<"OEv">>)>>],
    [mnem |-> "Pause", encs |-> <<Ordinary(<<243, 144>>, <<>>)>>],
    [mnem |-> "Cbw", encs |-> <<Native16(<<152>>, <<>>)>>],
    [mnem |-> "Cwde", encs |-> <<Ordinary(<<152>>, <<>>)>>],
    [mnem |-> "Cwd", encs |-> <<Native16(<<153>>, <<>>)>>],
    [mnem |-> "Cdq", encs |-> <<Ordinary(<<153>>, <<>>)>>],
    [mnem |-> "Wait", encs |-> <<Ordinary(<<155>>, <<>>)>>],
    [mnem |-> "Pushfw", encs |-> <<Native16(<<156>>, <<>>)>>],
    [mnem |-> "Pushfd", encs |-> <<Ordinary(<<156>>, <<>>)>>],
    [mnem |-> "Popfw", encs |-> <<Native16(<<157>>, <<>>)>>],
    [mnem |-> "Popfd", encs |-> <<Ordinary(<<157>>, <<>>)>>],
    [mnem |-> "Sahf", encs |-> <<Ordinary(<<158>>, <<>>)>>],
    [mnem |-> "Lahf", encs |-> <<Ordinary(<<159>>, <<>>)>>],
    [mnem |-> "Movsb", encs |-> <<Ordinary(<<164>>, <<>>), Ordinary(<<164>>, <<"OXb", "OYb">>)>>],
    [mnem |-> "Movsw", encs |-> <<Native16(<<165>>, <<>>), Native16(<<165>>, <<"OXw", "OYw">>)>>],
    [mnem |-> "Movsd", encs |-> <<
         Ordinary(<<165>>, <<>>),
         Ordinary(<<165>>, <<"OXd", "OYd">>),
         Ordinary(<<242, 15, 16>>, <<"OVsd", "OWsd">>),
         Ordinary(<<242, 15, 17>>, <<"OWsd", "OVsd">>)>>],
    [mnem |-> "Cmpsb", encs |-> <<Ordinary(<<166>>, <<>>), Ordinary(<<166>>, <<"OXb", "OYb">>)>>],
    [mnem |-> "Cmpsw", encs |-> <<Native16(<<167>>, <<>>), Native16(<<167>>, <<"OXw", "OYw">>)>>],
    [mnem |-> "Cmpsd", encs |-> <<
         Ordinary(<<167>>, <<>>),
         Ordinary(<<167>>, <<"OXd", "OYd">>),
         Ordinary(<<242, 15, 194>>, <<"OVsd", "OWsd", "OIb">>)>>],
    [mnem |-> "Stosb", encs |-> <<Ordinary(<<170>>, <<>>), Ordinary(<<170>>, <<"OYb">>)>>],
    [mnem |-> "Stosw", encs |-> <<Native16(<<171>>, <<>>), Native16(<<171>>, <<"OYw">>)>>],
    [mnem |-> "Stosd", encs |-> <<Ordinary(<<171>>, <<>>), Ordinary(<<171>>, <<"OYd">>)>>],
    [mnem |-> "Lodsb", encs |-> <<Ordinary(<<172>>, <<>>), Ordinary(<<172>>, <<"OXb">>)>>],
    [mnem |-> "Lodsw", encs |-> <<Native16(<<173>>, <<>>), Native16(<<173>>, <<"OXw">>)>>],
    [mnem |-> "Lodsd", encs |-> <<Ordinary(<<173>>, <<>>), Ordinary(<<173>>, <<"OXd">>)>>],
    [mnem |-> "Scasb", encs |-> <<Ordinary(<<174>>, <<>>), Ordinary(<<174>>, <<"OYb">>)>>],
    [mnem |-> "Scasw", encs |-> <<Native16(<<175>>, <<>>), Native16(<<175>>, <<"OYw">>)>>],
    [mnem |-> "Scasd", encs |-> <<Ordinary(<<175>>, <<>>), Ordinary(<<175>>, <<"OYd">>)>>],
    [mnem |-> "Rol", encs |-> <<
         ModRMGroup(0, <<192>>, <<"OEb", "OIb">>),
         ModRMGroup(0, <<193>>, <<"OEv", "OIb">>),
         ModRMGroup(0, <<208>>, <<"OEb", "O1">>),
         ModRMGroup(0, <<209>>, <<"OEv", "O1">>),
         ModRMGroup(0, <<210>>, <<"OEb", "OCL">>),
         ModRMGroup(0, <<211>>, <<"OEv", "OCL">>)>>],
    [mnem |-> "Ror", encs |-> <<
         ModRMGroup(1, <<192>>, <<"OEb", "OIb">>),
         ModRMGroup(1, <<193>>, <<"OEv", "OIb">>),
         ModRMGroup(1, <<208>>, <<"OEb", "O1">>),
         ModRMGroup(1, <<209>>, <<"OEv", "O1">>),
         ModRMGroup(1, <<210>>, <<"OEb", "OCL">>),
         ModRMGroup(1, <<211>>, <<"OEv", "OCL">>)>>],
    [mnem |-> "Rcl", encs |-> <<
         ModRMGroup(2, <<192>>, <<"OEb", "OIb">>),
         ModRMGroup(2, <<193>>, <<"OEv", "OIb">>),
         ModRMGroup(2, <<208>>, <<"OEb", "O1">>),
         ModRMGroup(2, <<209>>, <<"OEv", "O1">>),
         ModRMGroup(2, <<210>>, <<"OEb", "OCL">>),
         ModRMGroup(2, <<211>>, <<"OEv", "OCL">>)>>],
    [mnem |-> "Rcr", encs |-> <<
         ModRMGroup(3, <<192>>, <<"OEb", "OIb">>),
         ModRMGroup(3, <<193>>, <<"OEv", "OIb">>),
         ModRMGroup(3, <<208>>, <<"OEb", "O1">>),
         ModRMGroup(3, <<209>>, <<"OEv", "O1">>),
         ModRMGroup(3, <<210>>, <<"OEb", "OCL">>),
         ModRMGroup(3, <<211>>, <<"OEv", "OCL">>)>>],
    [mnem |-> "Shl", encs |-> <<
         ModRMGroup(4, <<192>>, <<"OEb", "OIb">>),
         ModRMGroup(4, <<193>>, <<"OEv", "OIb">>),
         ModRMGroup(4, <<208>>, <<"OEb", "O1">>),
         ModRMGroup(4, <<209>>, <<"OEv", "O1">>),
         ModRMGroup(4, <<210>>, <<"OEb", "OCL">>),
         ModRMGroup(4, <<211>>, <<"OEv", "OCL">>)>>],
    [mnem |-> "Shr", encs |-> <<
         ModRMGroup(5, <<192>>, <<"OEb", "OIb">>),
         ModRMGroup(5, <<193>>, <<"OEv", "OIb">>),
         ModRMGroup(5, <<208>>, <<"OEb", "O1">>),
         ModRMGroup(5, <<209>>, <<"OEv", "O1">>),
         ModRMGroup(5, <<210>>, <<"OEb", "OCL">>),
         ModRMGroup(5, <<211>>, <<"OEv", "OCL">>)>>],
    [mnem |-> "Sal", encs |-> <<
         ModRMGroup(6, <<192>>, <<"OEb", "OIb">>),
         ModRMGroup(6, <<193>>, <<"OEv", "OIb">>),
         ModRMGroup(6, <<208>>, <<"OEb", "O1">>),
         ModRMGroup(6, <<209>>, <<"OEv", "O1">>),
         ModRMGroup(6, <<210>>, <<"OEb", "OCL">>),
         ModRMGroup(6, <<211>>, <<"OEv", "OCL">>)>>],
    [mnem |-> "Sar", encs |-> <<
         ModRMGroup(7, <<192>>, <<"OEb", "OIb">>),
         ModRMGroup(7, <<193>>, <<"OEv", "OIb">>),
         ModRMGroup(7, <<208>>, <<"OEb", "O1">>),
         ModRMGroup(7, <<209>>, <<"OEv", "O1">>),
         ModRMGroup(7, <<210>>, <<"OEb", "OCL">>),
         ModRMGroup(7, <<211>>, <<"OEv", "OCL">>)>>],
    [mnem |-> "Ret", encs |-> <<Ordinary(<<194>>, <<"OIw">>), Ordinary(<<195>>, <<>>)>>],
    [mnem |-> "Les", encs |-> <<Ordinary(<<196>>, <<"OGz", "OMp">>)>>],
    [mnem |-> "Lds", encs |-> <<Ordinary(<<197>>, <<"OGz", "OMp">>)>>],
    [mnem |-> "Enter", encs |-> <<Ordinary(<<200>>, <<"OIw", "OIb">>)>>],
    [mnem |-> "Leave", encs |-> <<Ordinary(<<201>>, <<>>)>>],
    [mnem |-> "Retf", encs |-> <<Ordinary(<<202>>, <<"OIw">>), Ordinary(<<203>>, <<>>)>>],
    [mnem |-> "Int3", encs |-> <<Ordinary(<<204>>, <<>>)>>],
    [mnem |-> "Int", encs |-> <<Ordinary(<<205>>, <<"OIb">>)>>],
    [mnem |-> "Into", encs |-> <<Ordinary(<<206>>, <<>>)>>],
    [mnem |-> "Iretw", encs |-> <<Native16(<<207>>, <<>>)>>],
    [mnem |-> "Iretd", encs |-> <<Ordinary(<<207>>, <<>>)>>],
    [mnem |-> "Aam", encs |-> <<Ordinary(<<212, 10>>, <<>>), Ordinary(<<212>>, <<"OIb">>)>>],
    [mnem |-> "Aad", encs |-> <<Ordinary(<<213, 10>>, <<>>), Ordinary(<<213>>, <<"OIb">>)>>],
    [mnem |-> "Salc", encs |-> <<Ordinary(<<214>>, <<>>)>>],
    [mnem |-> "Xlat", encs |-> <<Ordinary(<<215>>, <<"OMbEbx">>)>>],
    [mnem |-> "In", encs |-> <<
         Ordinary(<<228>>, <<"OAL", "OIb">>),
         Ordinary(<<229>>, <<"OeAX", "OIb">>),
         Ordinary(<<236>>, <<"OAL", "ODX">>),
         Ordinary(<<237>>, <<"OeAX", "ODX">>)>>],
    [mnem |-> "Out", encs |-> <<
         Ordinary(<<230>>, <<"OIb", "OAL">>),
         Ordinary(<<231>>, <<"OIb", "OeAX">>),
         Ordinary(<<238>>, <<"ODX", "OAL">>),
         Ordinary(<<239>>, <<"ODX", "OeAX">>)>>],
    [mnem |-> "Icebp", encs |-> <<Ordinary(<<241>>, <<>>)>>],
    [mnem |-> "Hlt", encs |-> <<Ordinary(<<244>>, <<>>)>>],
    [mnem |-> "Cmc", encs |-> <<Ordinary(<<245>>, <<>>)>>],
    [mnem |-> "Clc", encs |-> <<Ordinary(<<248>>, <<>>)>>],
    [mnem |-> "Stc", encs |-> <<Ordinary(<<249>>, <<>>)>>],
    [mnem |-> "Cli", encs |-> <<Ordinary(<<250>>, <<>>)>>],
    [mnem |-> "Sti", encs |-> <<Ordinary(<<251>>, <<>>)>>],
    [mnem |-> "Cld", encs |-> <<Ordinary(<<252>>, <<>>)>>],
    [mnem |-> "Std", encs |-> <<Ordinary(<<253>>, <<>>)>>],
    [mnem |-> "Not", encs |-> <<
         ModRMGroup(2, <<246>>, <<"OEb">>),
         ModRMGroup(2, <<247>>, <<"OEv">>)>>],
    [mnem |-> "Neg", encs |-> <<
         ModRMGroup(3, <<246>>, <<"OEb">>),
         ModRMGroup(3, <<247>>, <<"OEv">>)>>],
    [mnem |-> "Mul", encs |-> <<
         ModRMGroup(4, <<246>>, <<"OEb">>),
         ModRMGroup(4, <<247>>, <<"OEv">>)>>],
    [mnem |-> "Div", encs |-> <<
         ModRMGroup(6, <<246>>, <<"OEb">>),
         ModRMGroup(6, <<247>>, <<"OEv">>)>>],
    [mnem |-> "Idiv", encs |-> <<
         ModRMGroup(7, <<246>>, <<"OEb">>),
         ModRMGroup(7, <<247>>, <<"OEv">>)>>],
    [mnem |-> "Call", encs |-> <<ModRMGroup(2, <<255>>, <<"OEv">>)>>],
    [mnem |-> "CallF", encs |-> <<
         Ordinary(<<154>>, <<"OAp">>),
         ModRMGroup(3, <<255>>, <<"OEv">>)>>],
    [mnem |-> "Jmp", encs |-> <<
         Ordinary(<<233>>, <<"OJz">>),
         ModRMGroup(4, <<255>>, <<"OEv">>)>>],
    [mnem |-> "JmpF", encs |-> <<ModRMGroup(5, <<255>>, <<"OEv">>)>>],
    [mnem |-> "Fadd", encs |-> <<
         ModRMGroup(0, <<216>>, <<"OSt0", "OReal4">>),
         ModRMGroup(0, <<216>>, <<"OSt0", "OStN">>),
         ModRMGroup(0, <<220>>, <<"OSt0", "OReal8">>),
         ModRMGroup(0, <<220>>, <<"OStN", "OSt0">>)>>],
    [mnem |-> "Fmul", encs |-> <<
         ModRMGroup(1, <<216>>, <<"OSt0", "OReal4">>),
         ModRMGroup(1, <<216>>, <<"OSt0", "OStN">>),
         ModRMGroup(1, <<220>>, <<"OSt0", "OReal8">>),
         ModRMGroup(1, <<220>>, <<"OStN", "OSt0">>)>>],
    [mnem |-> "Fcom", encs |-> <<
         ModRMGroup(2, <<216>>, <<"OSt0", "OReal4">>),
         ModRMGroup(2, <<216>>, <<"OSt0", "OStN">>),
         ModRMGroup(2, <<220>>, <<"OSt0", "OReal8">>)>>],
    [mnem |-> "Fcomp", encs |-> <<
         ModRMGroup(3, <<216>>, <<"OSt0", "OReal4">>),
         ModRMGroup(3, <<216>>, <<"OSt0", "OStN">>),
         ModRMGroup(3, <<220>>, <<"OSt0", "OReal8">>)>>],
    [mnem |-> "Fsub", encs |-> <<
         ModRMGroup(4, <<216>>, <<"OSt0", "OReal4">>),
         ModRMGroup(4, <<216>>, <<"OSt0", "OStN">>),
         ModRMGroup(4, <<220>>, <<"OSt0", "OReal8">>),
         ModRMGroup(4, <<220>>, <<"OStN", "OSt0">>)>>],
    [mnem |-> "Fsubr", encs |-> <<
         ModRMGroup(5, <<216>>, <<"OSt0", "OReal4">>),
         ModRMGroup(5, <<216>>, <<"OSt0", "OStN">>),
         ModRMGroup(5, <<220>>, <<"OSt0", "OReal8">>),
         ModRMGroup(5, <<220>>, <<"OStN", "OSt0">>)>>],
    [mnem |-> "Fdiv", encs |-> <<
         ModRMGroup(6, <<216>>, <<"OSt0", "OReal4">>),
         ModRMGroup(6, <<216>>, <<"OSt0", "OStN">>),
         ModRMGroup(6, <<220>>, <<"OSt0", "OReal8">>),
         ModRMGroup(6, <<220>>, <<"OStN", "OSt0">>)>>],
    [mnem |-> "Fdivr", encs |-> <<
         ModRMGroup(7, <<216>>, <<"OSt0", "OReal4">>),
         ModRMGroup(7, <<216>>, <<"OSt0", "OStN">>),
         ModRMGroup(7, <<220>>, <<"OSt0", "OReal8">>),
         ModRMGroup(7, <<220>>, <<"OStN", "OSt0">>)>>],
    [mnem |-> "Fld", encs |-> <<
         ModRMGroup(0, <<217>>, <<"OReal4">>),
         ModRMGroup(0, <<217>>, <<"OSt0", "OStN">>),
         ModRMGroup(5, <<219>>, <<"OReal10">>),
         ModRMGroup(0, <<221>>, <<"OReal8">>)>>],
    [mnem |-> "Fxch", encs |-> <<ModRMGroup(1, <<217>>, <<"OSt0", "OStN">>)>>],
    [mnem |-> "Fnop", encs |-> <<Ordinary(<<217, 208>>, <<>>)>>],
    [mnem |-> "Fchs", encs |-> <<Ordinary(<<217, 224>>, <<>>)>>],
    [mnem |-> "Fabs", encs |-> <<Ordinary(<<217, 225>>, <<>>)>>],
    [mnem |-> "Ftst", encs |-> <<Ordinary(<<217, 228>>, <<>>)>>],
    [mnem |-> "Fxam", encs |-> <<Ordinary(<<217, 229>>, <<>>)>>],
    [mnem |-> "Fld1", encs |-> <<Ordinary(<<217, 232>>, <<>>)>>],
    [mnem |-> "Fldl2t", encs |-> <<Ordinary(<<217, 233>>, <<>>)>>],
    [mnem |-> "Fldl2e", encs |-> <<Ordinary(<<217, 234>>, <<>>)>>],
    [mnem |-> "Fldpi", encs |-> <<Ordinary(<<217, 235>>, <<>>)>>],
    [mnem |-> "Fldlg2", encs |-> <<Ordinary(<<217, 236>>, <<>>)>>],
    [mnem |-> "Fldln2", encs |-> <<Ordinary(<<217, 237>>, <<>>)>>],
    [mnem |-> "Fldz", encs |-> <<Ordinary(<<217, 238>>, <<>>)>>],
    [mnem |-> "F2xm1", encs |-> <<Ordinary(<<217, 240>>, <<>>)>>],
    [mnem |-> "Fyl2x", encs |-> <<Ordinary(<<217, 241>>, <<>>)>>],
    [mnem |-> "Fptan", encs |-> <<Ordinary(<<217, 242>>, <<>>)>>],
    [mnem |-> "Fpatan", encs |-> <<Ordinary(<<217, 243>>, <<>>)>>],
    [mnem |-> "Fxtract", encs |-> <<Ordinary(<<217, 244>>, <<>>)>>],
    [mnem |-> "Fprem1", encs |-> <<Ordinary(<<217, 245>>, <<>>)>>],
    [mnem |-> "Fdecstp", encs |-> <<Ordinary(<<217, 246>>, <<>>)>>],
    [mnem |-> "Fincstp", encs |-> <<Ordinary(<<217, 247>>, <<>>)>>],
    [mnem |-> "Fprem", encs |-> <<Ordinary(<<217, 248>>, <<>>)>>],
    [mnem |-> "Fyl2xp1", encs |-> <<Ordinary(<<217, 249>>, <<>>)>>],
    [mnem |-> "Fsqrt", encs |-> <<Ordinary(<<217, 250>>, <<>>)>>],
    [mnem |-> "Fsincos", encs |-> <<Ordinary(<<217, 251>>, <<>>)>>],
    [mnem |-> "Frndint", encs |-> <<Ordinary(<<217, 252>>, <<>>)>>],
    [mnem |-> "Fscale", encs |-> <<Ordinary(<<217, 253>>, <<>>)>>],
    [mnem |-> "Fsin", encs |-> <<Ordinary(<<217, 254>>, <<>>)>>],
    [mnem |-> "Fcos", encs |-> <<Ordinary(<<217, 255>>, <<>>)>>],
    [mnem |-> "Fst", encs |-> <<
         ModRMGroup(2, <<217>>, <<"OReal4">>),
         ModRMGroup(2, <<221>>, <<"OReal8">>),
         ModRMGroup(2, <<221>>, <<"OStN">>)>>],
    [mnem |-> "Fstp", encs |-> <<
         ModRMGroup(3, <<217>>, <<"OReal4">>),
         ModRMGroup(7, <<219>>, <<"OReal10">>),
         ModRMGroup(3, <<221>>, <<"OReal8">>),
         ModRMGroup(3, <<221>>, <<"OStN">>)>>],
    [mnem |-> "Fldenv", encs |-> <<ModRMGroup(4, <<217>>, <<"OFPEnvLow">>)>>],
    [mnem |-> "Fldcw", encs |-> <<ModRMGroup(5, <<217>>, <<"OMw">>)>>],
    [mnem |-> "Fstenv", encs |-> <<ModRMGroup(6, <<217>>, <<"OFPEnvLow">>)>>],
    [mnem |-> "Fstcw", encs |-> <<ModRMGroup(7, <<217>>, <<"OMw">>)>>],
    [mnem |-> "Fiadd", encs |-> <<
         ModRMGroup(0, <<218>>, <<"OMd">>),
         ModRMGroup(0, <<222>>, <<"OMw">>)>>],
    [mnem |-> "Fimul", encs |-> <<
         ModRMGroup(1, <<218>>, <<"OMd">>),
         ModRMGroup(1, <<222>>, <<"OMw">>)>>],
    [mnem |-> "Ficom", encs |-> <<
         ModRMGroup(2, <<218>>, <<"OMd">>),
         ModRMGroup(2, <<222>>, <<"OMw">>)>>],
    [mnem |-> "Ficomp", encs |-> <<
         ModRMGroup(3, <<218>>, <<"OMd">>),
         ModRMGroup(3, <<222>>, <<"OMw">>)>>],
    [mnem |-> "Fisub", encs |-> <<
         ModRMGroup(4, <<218>>, <<"OMd">>),
         ModRMGroup(4, <<222>>, <<"OMw">>)>>],
    [mnem |-> "Fisubr", encs |-> <<
         ModRMGroup(5, <<218>>, <<"OMd">>),
         ModRMGroup(5, <<222>>, <<"OMw">>)>>],
    [mnem |-> "Fidiv", encs |-> <<
         ModRMGroup(6, <<218>>, <<"OMd">>),
         ModRMGroup(6, <<222>>, <<"OMw">>)>>],
    [mnem |-> "Fidivr", encs |-> <<
         ModRMGroup(7, <<218>>, <<"OMd">>),
         ModRMGroup(7, <<222>>, <<"OMw">>)>>],
    [mnem |-> "Fcmovb", encs |-> <<ModRMGroup(0, <<218>>, <<"OSt0", "OStN">>)>>],
    [mnem |-> "Fcmove", encs |-> <<ModRMGroup(1, <<218>>, <<"OSt0", "OStN">>)>>],
    [mnem |-> "Fcmovbe", encs |-> <<ModRMGroup(2, <<218>>, <<"OSt0", "OStN">>)>>],
    [mnem |-> "Fcmovu", encs |-> <<ModRMGroup(3, <<218>>, <<"OSt0", "OStN">>)>>],
    [mnem |-> "Fucompp", encs |-> <<Ordinary(<<218, 233>>, <<>>)>>],
    [mnem |-> "Fcmovnb", encs |-> <<ModRMGroup(0, <<219>>, <<"OSt0", "OStN">>)>>],
    [mnem |-> "Fcmovne", encs |-> <<ModRMGroup(1, <<219>>, <<"OSt0", "OStN">>)>>],
    [mnem |-> "Fcmovnbe", encs |-> <<ModRMGroup(2, <<219>>, <<"OSt0", "OStN">>)>>],
    [mnem |-> "Fcmovnu", encs |-> <<ModRMGroup(3, <<219>>, <<"OSt0", "OStN">>)>>],
    [mnem |-> "Fclex", encs |-> <<Ordinary(<<219, 226>>, <<>>)>>],
    [mnem |-> "Finit", encs |-> <<Ordinary(<<219, 227>>, <<>>)>>],
    [mnem |-> "Fucomi", encs |-> <<ModRMGroup(5, <<219>>, <<"OSt0", "OStN">>)>>],
    [mnem |-> "Fcomi", encs |-> <<ModRMGroup(6, <<219>>, <<"OSt0", "OStN">>)>>],
    [mnem |-> "Fild", encs |-> <<
         ModRMGroup(0, <<219>>, <<"OMd">>),
         ModRMGroup(0, <<223>>, <<"OMw">>),
         ModRMGroup(5, <<223>>, <<"OReal8">>)>>],
    [mnem |-> "Fisttp", encs |-> <<
         ModRMGroup(1, <<219>>, <<"OMd">>),
         ModRMGroup(1, <<221>>, <<"OMq">>),
         ModRMGroup(1, <<223>>, <<"OMw">>)>>],
    [mnem |-> "Fist", encs |-> <<
         ModRMGroup(2, <<219>>, <<"OMd">>),
         ModRMGroup(2, <<223>>, <<"OMw">>)>>],
    [mnem |-> "Fistp", encs |-> <<
         ModRMGroup(3, <<219>>, <<"OMd">>),
         ModRMGroup(3, <<223>>, <<"OMw">>),
         ModRMGroup(7, <<223>>, <<"OReal8">>)>>],
    [mnem |-> "Frstor", encs |-> <<ModRMGroup(4, <<221>>, <<"OFPEnv">>)>>],
    [mnem |-> "Fsave", encs |-> <<ModRMGroup(6, <<221>>, <<"OFPEnv">>)>>],
    [mnem |-> "Fstsw", encs |-> <<
         ModRMGroup(7, <<221>>, <<"OMw">>),
         Ordinary(<<223, 224>>, <<"OAX">>)>>],
    [mnem |-> "Ffree", encs |-> <<ModRMGroup(0, <<221>>, <<"OStN">>)>>],
    [mnem |-> "Fucom", encs |-> <<ModRMGroup(4, <<221>>, <<"OStN">>)>>],
    [mnem |-> "Fucomp", encs |-> <<ModRMGroup(5, <<221>>, <<"OStN">>)>>],
    [mnem |-> "Faddp", encs |-> <<ModRMGroup(0, <<222>>, <<"OStN", "OSt0">>)>>],
    [mnem |-> "Fmulp", encs |-> <<ModRMGroup(1, <<222>>, <<"OStN", "OSt0">>)>>],
    [mnem |-> "Fcompp", encs |-> <<Ordinary(<<222, 217>>, <<>>)>>],
    [mnem |-> "Fsubrp", encs |-> <<ModRMGroup(4, <<222>>, <<"OStN", "OSt0">>)>>],
    [mnem |-> "Fsubp", encs |-> <<ModRMGroup(5, <<222>>, <<"OStN", "OSt0">>)>>],
    [mnem |-> "Fdivrp", encs |-> <<ModRMGroup(6, <<222>>, <<"OStN", "OSt0">>)>>],
    [mnem |-> "Fdivp", encs |-> <<ModRMGroup(7, <<222>>, <<"OStN", "OSt0">>)>>],
    [mnem |-> "Fbld", encs |-> <<ModRMGroup(4, <<223>>, <<"OReal10">>)>>],
    [mnem |-> "Fbstp", encs |-> <<ModRMGroup(6, <<223>>, <<"OReal10">>)>>],
    [mnem |-> "Fucomip", encs |-> <<ModRMGroup(5, <<223>>, <<"OSt0", "OStN">>)>>],
    [mnem |-> "Fcomip", encs |-> <<ModRMGroup(6, <<223>>, <<"OSt0", "OStN">>)>>],
    [mnem |-> "Sldt", encs |-> <<
         ModRMGroup(0, <<15, 0>>, <<"OMw">>),
         ModRMGroup(0, <<15, 0>>, <<"ORv">>)>>],
    [mnem |-> "Str", encs |-> <<
         ModRMGroup(1, <<15, 0>>, <<"OMw">>),
         ModRMGroup(1, <<15, 0>>, <<"ORv">>)>>],
    [mnem |-> "Lldt", encs |-> <<ModRMGroup(2, <<15, 0>>, <<"OEw">>)>>],
    [mnem |-> "Ltr", encs |-> <<ModRMGroup(3, <<15, 0>>, <<"OEw">>)>>],
    [mnem |-> "Verr", encs |-> <<ModRMGroup(4, <<15, 0>>, <<"OEw">>)>>],
    [mnem |-> "Verw", encs |-> <<ModRMGroup(5, <<15, 0>>, <<"OEw">>)>>],
    [mnem |-> "Sgdt", encs |-> <<ModRMGroup(0, <<15, 1>>, <<"OMs">>)>>],
    [mnem |-> "Sidt", encs |-> <<ModRMGroup(1, <<15, 1>>, <<"OMs">>)>>],
    [mnem |-> "Lgdt", encs |-> <<ModRMGroup(2, <<15, 1>>, <<"OMs">>)>>],
    [mnem |-> "Lidt", encs |-> <<ModRMGroup(3, <<15, 1>>, <<"OMs">>)>>],
    [mnem |-> "Smsw", encs |-> <<
         ModRMGroup(4, <<15, 1>>, <<"OMw">>),
         ModRMGroup(4, <<15, 1>>, <<"ORv">>)>>],
    [mnem |-> "Lmsw", encs |-> <<
         ModRMGroup(6, <<15, 1>>, <<"OMw">>),
         ModRMGroup(6, <<15, 1>>, <<"ORw">>)>>],
    [mnem |-> "Invlpg", encs |-> <<ModRMGroup(7, <<15, 1>>, <<"OMb">>)>>],
    [mnem |-> "Vmcall", encs |-> <<Ordinary(<<15, 1, 193>>, <<>>)>>],
    [mnem |-> "Vmlaunch", encs |-> <<Ordinary(<<15, 1, 194>>, <<>>)>>],
    [mnem |-> "Vmresume", encs |-> <<Ordinary(<<15, 1, 195>>, <<>>)>>],
    [mnem |-> "Vmxoff", encs |-> <<Ordinary(<<15, 1, 196>>, <<>>)>>],
    [mnem |-> "Monitor", encs |-> <<Ordinary(<<15, 1, 200>>, <<>>)>>],
    [mnem |-> "Mwait", encs |-> <<Ordinary(<<15, 1, 201>>, <<>>)>>],
    [mnem |-> "Lar", encs |-> <<Ordinary(<<15, 2>>, <<"OGv", "OEw">>)>>],
    [mnem |-> "Lsl", encs |-> <<Ordinary(<<15, 3>>, <<"OGv", "OEw">>)>>],
    [mnem |-> "Syscall", encs |-> <<Ordinary(<<15, 5>>, <<>>)>>],
    [mnem |-> "Clts", encs |-> <<Ordinary(<<15, 6>>, <<>>)>>],
    [mnem |-> "Sysret", encs |-> <<Ordinary(<<15, 7>>, <<>>)>>],
    [mnem |-> "Invd", encs |-> <<Ordinary(<<15, 8>>, <<>>)>>],
    [mnem |-> "Wbinvd", encs |-> <<Ordinary(<<15, 9>>, <<>>)>>],
    [mnem |-> "Ud2", encs |-> <<Ordinary(<<15, 11>>, <<>>)>>],
    [mnem |-> "Movups", encs |-> <<
         Ordinary(<<15, 16>>, <<"OVps", "OWps">>),
         Ordinary(<<15, 17>>, <<"OWps", "OVps">>)>>],
    [mnem |-> "Movss", encs |-> <<
         Ordinary(<<243, 15, 16>>, <<"OVss", "OWss">>),
         Ordinary(<<243, 15, 17>>, <<"OWss", "OVss">>)>>],
    [mnem |-> "Movupd", encs |-> <<
         Ordinary(<<102, 15, 16>>, <<"OVpd", "OWpd">>),
         Ordinary(<<102, 15, 17>>, <<"OWpd", "OVpd">>)>>],
    [mnem |-> "Movlps", encs |-> <<
         Ordinary(<<15, 18>>, <<"OVq", "OMq">>),
         Ordinary(<<15, 19>>, <<"OMq", "OVq">>)>>],
    [mnem |-> "Movhlps", encs |-> <<Ordinary(<<15, 18>>, <<"OVq", "OUq">>)>>],
    [mnem |-> "Movsldup", encs |-> <<Ordinary(<<243, 15, 18>>, <<"OVq", "OWq">>)>>],
    [mnem |-> "Movlpd", encs |-> <<
         Ordinary(<<102, 15, 18>>, <<"OVq", "OMq">>),
         Ordinary(<<102, 15, 19>>, <<"OMq", "OVq">>)>>],
    [mnem |-> "Movddup", encs |-> <<Ordinary(<<242, 15, 18>>, <<"OVq", "OWq">>)>>],
    [mnem |-> "Unpcklpd", encs |-> <<Ordinary(<<15, 20>>, <<"OVpd", "OWq">>)>>],
    [mnem |-> "Unpcklps", encs |-> <<Ordinary(<<102, 15, 20>>, <<"OVps", "OWq">>)>>],
    [mnem |-> "Unpckhpd", encs |-> <<Ordinary(<<15, 21>>, <<"OVpd", "OWq">>)>>],
    [mnem |-> "Unpckhps", encs |-> <<Ordinary(<<102, 15, 21>>, <<"OVps", "OWq">>)>>],
    [mnem |-> "Movhps", encs |-> <<
         Ordinary(<<15, 22>>, <<"OVq", "OMq">>),
         Ordinary(<<15, 23>>, <<"OMq", "OVq">>)>>],
    [mnem |-> "Movlhps", encs |-> <<Ordinary(<<15, 22>>, <<"OVq", "OUq">>)>>],
    [mnem |-> "Movshdup", encs |-> <<Ordinary(<<243, 15, 22>>, <<"OVq", "OWq">>)>>],
    [mnem |-> "Movhpd", encs |-> <<
         Ordinary(<<102, 15, 22>>, <<"OVq", "OMq">>),
         Ordinary(<<102, 15, 23>>, <<"OMq", "OVq">>)>>],
    [mnem |-> "Prefetchnta", encs |-> <<ModRMGroup(0, <<15, 24>>, <<"OMb">>)>>],
    [mnem |-> "Prefetcht0", encs |-> <<ModRMGroup(1, <<15, 24>>, <<"OMb">>)>>],
    [mnem |-> "Prefetcht1", encs |-> <<ModRMGroup(2, <<15, 24>>, <<"OMb">>)>>],
    [mnem |-> "Prefetcht2", encs |-> <<ModRMGroup(3, <<15, 24>>, <<"OMb">>)>>],
    [mnem |-> "Movaps", encs |-> <<
         Ordinary(<<15, 40>>, <<"OVpd", "OWpd">>),
         Ordinary(<<15, 41>>, <<"OWpd", "OVpd">>)>>],
    [mnem |-> "Movapd", encs |-> <<
         Ordinary(<<102, 15, 40>>, <<"OVps", "OWps">>),
         Ordinary(<<102, 15, 41>>, <<"OWps", "OVps">>)>>],
    [mnem |-> "Cvtpi2ps", encs |-> <<Ordinary(<<15, 42>>, <<"OVps", "OQpi">>)>>],
    [mnem |-> "Cvtsi2ss", encs |-> <<Ordinary(<<243, 15, 42>>, <<"OVss", "OEd_q">>)>>],
    [mnem |-> "Cvtpi2pd", encs |-> <<Ordinary(<<102, 15, 42>>, <<"OVpd", "OQpi">>)>>],
    [mnem |-> "Cvtsi2sd", encs |-> <<Ordinary(<<242, 15, 42>>, <<"OVsd", "OEd_q">>)>>],
    [mnem |-> "Movntps", encs |-> <<Ordinary(<<15, 43>>, <<"OMps", "OVps">>)>>],
    [mnem |-> "Movntpd", encs |-> <<Ordinary(<<102, 15, 43>>, <<"OMpd", "OVps">>)>>],
    [mnem |-> "Cvttps2pi", encs |-> <<Ordinary(<<15, 44>>, <<"OPpi", "OWps">>)>>],
    [mnem |-> "Cvttss2si", encs |-> <<Ordinary(<<243, 15, 44>>, <<"OGd", "OWss">>)>>],
    [mnem |-> "Cvttpd2pi", encs |-> <<Ordinary(<<102, 15, 44>>, <<"OPpi", "OWpd">>)>>],
    [mnem |-> "Cvttsd2si", encs |-> <<Ordinary(<<242, 15, 44>>, <<"OGd", "OWsd">>)>>],
    [mnem |-> "Cvtps2pi", encs |-> <<Ordinary(<<15, 45>>, <<"OPpi", "OWps">>)>>],
    [mnem |-> "Cvtss2si", encs |-> <<Ordinary(<<243, 15, 45>>, <<"OGd_q", "OWss">>)>>],
    [mnem |-> "Cvtpd2pi", encs |-> <<Ordinary(<<102, 15, 45>>, <<"OPpi", "OWpd">>)>>],
    [mnem |-> "Cvtsd2si", encs |-> <<Ordinary(<<242, 15, 45>>, <<"OGd_q", "OWsd">>)>>],
    [mnem |-> "Ucomiss", encs |-> <<Ordinary(<<15, 46>>, <<"OVsd", "OWsd">>)>>],
    [mnem |-> "Ucomisd", encs |-> <<Ordinary(<<102, 15, 46>>, <<"OVss", "OWss">>)>>],
    [mnem |-> "Comiss", encs |-> <<Ordinary(<<15, 47>>, <<"OVsd", "OWsd">>)>>],
    [mnem |-> "Comisd", encs |-> <<Ordinary(<<102, 15, 47>>, <<"OVss", "OWss">>)>>],
    [mnem |-> "Wrmsr", encs |-> <<Ordinary(<<15, 48>>, <<>>)>>],
    [mnem |-> "Rdtsc", encs |-> <<Ordinary(<<15, 49>>, <<>>)>>],
    [mnem |-> "Rdmsr", encs |-> <<Ordinary(<<15, 50>>, <<>>)>>],
    [mnem |-> "Rdpmc", encs |-> <<Ordinary(<<15, 51>>, <<>>)>>],
    [mnem |-> "Sysenter", encs |-> <<Ordinary(<<15, 52>>, <<>>)>>],
    [mnem |-> "Sysexit", encs |-> <<Ordinary(<<15, 53>>, <<>>)>>],
    [mnem |-> "Getsec", encs |-> <<Ordinary(<<15, 55>>, <<>>)>>],
    [mnem |-> "Cmovo", encs |-> <<Ordinary(<<15, 64>>, <<"OGv", "OEv">>)>>],
    [mnem |-> "Cmovno", encs |-> <<Ordinary(<<15, 65>>, <<"OGv", "OEv">>)>>],
    [mnem |-> "Cmovb", encs |-> <<Ordinary(<<15, 66>>, <<"OGv", "OEv">>)>>],
    [mnem |-> "Cmovae", encs |-> <<Ordinary(<<15, 67>>, <<"OGv", "OEv">>)>>],
    [mnem |-> "Cmovz", encs |-> <<Ordinary(<<15, 68>>, <<"OGv", "OEv">>)>>],
    [mnem |-> "Cmovnz", encs |-> <<Ordinary(<<15, 69>>, <<"OGv", "OEv">>)>>],
    [mnem |-> "Cmovbe", encs |-> <<Ordinary(<<15, 70>>, <<"OGv", "OEv">>)>>],
    [mnem |-> "Cmova", encs |-> <<Ordinary(<<15, 71>>, <<"OGv", "OEv">>)>>],
    [mnem |-> "Cmovs", encs |-> <<Ordinary(<<15, 72>>, <<"OGv", "OEv">>)>>],
    [mnem |-> "Cmovns", encs |-> <<Ordinary(<<15, 73>>, <<"OGv", "OEv">>)>>],
    [mnem |-> "Cmovp", encs |-> <<Ordinary(<<15, 74>>, <<"OGv", "OEv">>)>>],
    [mnem |-> "Cmovnp", encs |-> <<Ordinary(<<15, 75>>, <<"OGv", "OEv">>)>>],
    [mnem |-> "Cmovl", encs |-> <<Ordinary(<<15, 76>>, <<"OGv", "OEv">>)>>],
    [mnem |-> "Cmovge", encs |-> <<Ordinary(<<15, 77>>, <<"OGv", "OEv">>)>>],
    [mnem |-> "Cmovle", encs |-> <<Ordinary(<<15, 78>>, <<"OGv", "OEv">>)>>],
    [mnem |-> "Cmovg", encs |-> <<Ordinary(<<15, 79>>, <<"OGv", "OEv">>)>>],
    [mnem |-> "Movmskps", encs |-> <<Ordinary(<<15, 80>>, <<"OGd", "OUps">>)>>],
    [mnem |-> "Movmskpd", encs |-> <<Ordinary(<<102, 15, 80>>, <<"OGd", "OUpd">>)>>],
    [mnem |-> "Sqrtps", encs |-> <<Ordinary(<<15, 81>>, <<"OVps", "OWps">>)>>],
    [mnem |-> "Sqrtss", encs |-> <<Ordinary(<<243, 15, 81>>, <<"OVss", "OWss">>)>>],
    [mnem |-> "Sqrtpd", encs |-> <<Ordinary(<<102, 15, 81>>, <<"OVpd", "OWpd">>)>>],
    [mnem |-> "Sqrtsd", encs |-> <<Ordinary(<<242, 15, 81>>, <<"OVsd", "OWsd">>)>>],
    [mnem |-> "Rsqrtps", encs |-> <<Ordinary(<<15, 82>>, <<"OVps", "OWps">>)>>],
    [mnem |-> "Rsqrtss", encs |-> <<Ordinary(<<243, 15, 82>>, <<"OVss", "OWss">>)>>],
    [mnem |-> "Rcpps", encs |-> <<Ordinary(<<15, 83>>, <<"OVps", "OWps">>)>>],
    [mnem |-> "Rcpss", encs |-> <<Ordinary(<<243, 15, 83>>, <<"OVss", "OWss">>)>>],
    [mnem |-> "Andps", encs |-> <<Ordinary(<<15, 84>>, <<"OVps", "OWps">>)>>],
    [mnem |-> "Andpd", encs |-> <<Ordinary(<<102, 15, 84>>, <<"OVpd", "OWpd">>)>>],
    [mnem |-> "Andnps", encs |-> <<Ordinary(<<15, 85>>, <<"OVps", "OWps">>)>>],
    [mnem |-> "Andnpd", encs |-> <<Ordinary(<<102, 15, 85>>, <<"OVpd", "OWpd">>)>>],
    [mnem |-> "Orps", encs |-> <<Ordinary(<<15, 86>>, <<"OVps", "OWps">>)>>],
    [mnem |-> "Orpd", encs |-> <<Ordinary(<<102, 15, 86>>, <<"OVpd", "OWpd">>)>>],
    [mnem |-> "Xorps", encs |-> <<Ordinary(<<15, 87>>, <<"OVps", "OWps">>)>>],
    [mnem |-> "Xorpd", encs |-> <<Ordinary(<<102, 15, 87>>, <<"OVpd", "OWpd">>)>>],
    [mnem |-> "Addps", encs |-> <<Ordinary(<<15, 88>>, <<"OVps", "OWps">>)>>],
    [mnem |-> "Addss", encs |-> <<Ordinary(<<243, 15, 88>>, <<"OVss", "OWss">>)>>],
    [mnem |-> "Addpd", encs |-> <<Ordinary(<<102, 15, 88>>, <<"OVpd", "OWpd">>)>>],
    [mnem |-> "Addsd", encs |-> <<Ordinary(<<242, 15, 88>>, <<"OVsd", "OWsd">>)>>],
    [mnem |-> "Mulps", encs |-> <<Ordinary(<<15, 89>>, <<"OVps", "OWps">>)>>],
    [mnem |-> "Mulss", encs |-> <<Ordinary(<<243, 15, 89>>, <<"OVss", "OWss">>)>>],
    [mnem |-> "Mulpd", encs |-> <<Ordinary(<<102, 15, 89>>, <<"OVpd", "OWpd">>)>>],
    [mnem |-> "Mulsd", encs |-> <<Ordinary(<<242, 15, 89>>, <<"OVsd", "OWsd">>)>>],
    [mnem |-> "Cvtps2pd", encs |-> <<Ordinary(<<15, 90>>, <<"OVpd", "OWps">>)>>],
    [mnem |-> "Cvtss2sd", encs |-> <<Ordinary(<<243, 15, 90>>, <<"OVss", "OWss">>)>>],
    [mnem |-> "Cvtpd2ps", encs |-> <<Ordinary(<<102, 15, 90>>, <<"OVps", "OWpd">>)>>],
    [mnem |-> "Cvtsd2ss", encs |-> <<Ordinary(<<242, 15, 90>>, <<"OVsd", "OWsd">>)>>],
    [mnem |-> "Cvtdq2ps", encs |-> <<Ordinary(<<15, 91>>, <<"OVps", "OWps">>)>>],
    [mnem |-> "Cvttps2dq", encs |-> <<Ordinary(<<243, 15, 91>>, <<"OVdq", "OWps">>)>>],
    [mnem |-> "Cvtps2dq", encs |-> <<Ordinary(<<102, 15, 91>>, <<"OVdq", "OWps">>)>>],
    [mnem |-> "Subps", encs |-> <<Ordinary(<<15, 92>>, <<"OVps", "OWps">>)>>],
    [mnem |-> "Subss", encs |-> <<Ordinary(<<243, 15, 92>>, <<"OVss", "OWss">>)>>],
    [mnem |-> "Subpd", encs |-> <<Ordinary(<<102, 15, 92>>, <<"OVpd", "OWpd">>)>>],
    [mnem |-> "Subsd", encs |-> <<Ordinary(<<242, 15, 92>>, <<"OVsd", "OWsd">>)>>],
    [mnem |-> "Minps", encs |-> <<Ordinary(<<15, 93>>, <<"OVps", "OWps">>)>>],
    [mnem |-> "Minss", encs |-> <<Ordinary(<<243, 15, 93>>, <<"OVss", "OWss">>)>>],
    [mnem |-> "Minpd", encs |-> <<Ordinary(<<102, 15, 93>>, <<"OVpd", "OWpd">>)>>],
    [mnem |-> "Minsd", encs |-> <<Ordinary(<<242, 15, 93>>, <<"OVsd", "OWsd">>)>>],
    [mnem |-> "Divps", encs |-> <<Ordinary(<<15, 94>>, <<"OVps", "OWps">>)>>],
    [mnem |-> "Divss", encs |-> <<Ordinary(<<243, 15, 94>>, <<"OVss", "OWss">>)>>],
    [mnem |-> "Divpd", encs |-> <<Ordinary(<<102, 15, 94>>, <<"OVpd", "OWpd">>)>>],
    [mnem |-> "Divsd", encs |-> <<Ordinary(<<242, 15, 94>>, <<"OVsd", "OWsd">>)>>],
    [mnem |-> "Maxps", encs |-> <<Ordinary(<<15, 95>>, <<"OVps", "OWps">>)>>],
    [mnem |-> "Maxss", encs |-> <<Ordinary(<<243, 15, 95>>, <<"OVss", "OWss">>)>>],
    [mnem |-> "Maxpd", encs |-> <<Ordinary(<<102, 15, 95>>, <<"OVpd", "OWpd">>)>>],
    [mnem |-> "Maxsd", encs |-> <<Ordinary(<<242, 15, 95>>, <<"OVsd", "OWsd">>)>>],
    [mnem |-> "Punpcklbw", encs |-> <<
         Ordinary(<<15, 96>>, <<"OPq", "OQd">>),
         Ordinary(<<102, 15, 96>>, <<"OVdq", "OWdq">>)>>],
    [mnem |-> "Punpcklwd", encs |-> <<
         Ordinary(<<15, 97>>, <<"OPq", "OQd">>),
         Ordinary(<<102, 15, 97>>, <<"OVdq", "OWdq">>)>>],
    [mnem |-> "Punpckldq", encs |-> <<
         Ordinary(<<15, 98>>, <<"OPq", "OQd">>),
         Ordinary(<<102, 15, 98>>, <<"OVdq", "OWdq">>)>>],
    [mnem |-> "Packsswb", encs |-> <<
         Ordinary(<<15, 99>>, <<"OPq", "OQd">>),
         Ordinary(<<102, 15, 99>>, <<"OVdq", "OWdq">>)>>],
    [mnem |-> "Pcmpgtb", encs |-> <<
         Ordinary(<<15, 100>>, <<"OPq", "OQd">>),
         Ordinary(<<102, 15, 100>>, <<"OVdq", "OWdq">>)>>],
    [mnem |-> "Pcmpgtw", encs |-> <<
         Ordinary(<<15, 101>>, <<"OPq", "OQd">>),
         Ordinary(<<102, 15, 101>>, <<"OVdq", "OWdq">>)>>],
    [mnem |-> "Pcmpgtd", encs |-> <<
         Ordinary(<<15, 102>>, <<"OPq", "OQd">>),
         Ordinary(<<102, 15, 102>>, <<"OVdq", "OWdq">>)>>],
    [mnem |-> "Packuswb", encs |-> <<
         Ordinary(<<15, 103>>, <<"OPq", "OQd">>),
         Ordinary(<<102, 15, 103>>, <<"OVdq", "OWdq">>)>>],
    [mnem |-> "Punpckhbw", encs |-> <<
         Ordinary(<<15, 104>>, <<"OPq", "OQd">>),
         Ordinary(<<102, 15, 104>>, <<"OVdq", "OWdq">>)>>],
    [mnem |-> "Punpckhwd", encs |-> <<
         Ordinary(<<15, 105>>, <<"OPq", "OQd">>),
         Ordinary(<<102, 15, 105>>, <<"OVdq", "OWdq">>)>>],
    [mnem |-> "Punpckhdq", encs |-> <<
         Ordinary(<<15, 106>>, <<"OPq", "OQd">>),
         Ordinary(<<102, 15, 106>>, <<"OVdq", "OWdq">>)>>],
    [mnem |-> "Packssdw", encs |-> <<
         Ordinary(<<15, 107>>, <<"OPq", "OQd">>),
         Ordinary(<<102, 15, 107>>, <<"OVdq", "OWdq">>)>>],
    [mnem |-> "Punpcklqdq", encs |-> <<Ordinary(<<102, 15, 108>>, <<"OVdq", "OWdq">>)>>],
    [mnem |-> "Punpckhqdq", encs |-> <<Ordinary(<<102, 15, 109>>, <<"OVdq", "OWdq">>)>>],
    [mnem |-> "Movd", encs |-> <<
         Ordinary(<<15, 110>>, <<"OPd", "OEd_q">>),
         Ordinary(<<102, 15, 110>>, <<"OVdq", "OEd_q">>),
         Ordinary(<<15, 126>>, <<"OEd_q", "OPd">>),
         Ordinary(<<102, 15, 126>>, <<"OEd_q", "OVdq">>)>>],
    [mnem |-> "Movq", encs |-> <<
         Ordinary(<<15, 111>>, <<"OPq", "OQq">>),
         Ordinary(<<243, 15, 126>>, <<"OVq", "OWq">>),
         Ordinary(<<15, 127>>, <<"OQq", "OPq">>),
         Ordinary(<<102, 15, 214>>, <<"OVdq", "OWdq">>)>>],
    [mnem |-> "Movdqu", encs |-> <<
         Ordinary(<<243, 15, 111>>, <<"OVdq", "OWdq">>),
         Ordinary(<<243, 15, 127>>, <<"OWdq", "OVdq">>)>>],
    [mnem |-> "Movdqa", encs |-> <<
         Ordinary(<<102, 15, 111>>, <<"OVdq", "OWdq">>),
         Ordinary(<<102, 15, 127>>, <<"OWdq", "OVdq">>)>>],
    [mnem |-> "Pshufw", encs |-> <<Ordinary(<<15, 112>>, <<"OPq", "OQq", "OIb">>)>>],
    [mnem |-> "Pshufhw", encs |-> <<Ordinary(<<243, 15, 112>>, <<"OVdq", "OWdq", "OIb">>)>>],
    [mnem |-> "Pshufd", encs |-> <<Ordinary(<<102, 15, 112>>, <<"OVdq", "OWdq", "OIb">>)>>],
    [mnem |-> "Pshuflw", encs |-> <<Ordinary(<<242, 15, 112>>, <<"OVdq", "OWdq", "OIb">>)>>],
    [mnem |-> "Psrlw", encs |-> <<
         ModRMGroup(2, <<15, 113>>, <<"ONq", "OIb">>),
         ModRMGroup(2, <<102, 15, 113>>, <<"OUdq", "OIb">>),
         Ordinary(<<15, 209>>, <<"OPq", "OQq">>),
         Ordinary(<<102, 15, 209>>, <<"OVdq", "OWdq">>)>>],
    [mnem |-> "Psraw", encs |-> <<
         ModRMGroup(4, <<15, 113>>, <<"ONq", "OIb">>),
         ModRMGroup(4, <<102, 15, 113>>, <<"OUdq", "OIb">>),
         Ordinary(<<15, 225>>, <<"OPq", "OQq">>),
         Ordinary(<<102, 15, 225>>, <<"OVdq", "OWdq">>)>>],
    [mnem |-> "Psllw", encs |-> <<
         ModRMGroup(6, <<15, 113>>, <<"ONq", "OIb">>),
         ModRMGroup(6, <<102, 15, 113>>, <<"OUdq", "OIb">>),
         Ordinary(<<15, 241>>, <<"OPq", "OQq">>),
         Ordinary(<<102, 15, 241>>, <<"OVdq", "OWdq">>)>>],
    [mnem |-> "Psrld", encs |-> <<
         ModRMGroup(2, <<15, 114>>, <<"ONq", "OIb">>),
         ModRMGroup(2, <<102, 15, 114>>, <<"OUdq", "OIb">>),
         Ordinary(<<15, 210>>, <<"OPq", "OQq">>),
         Ordinary(<<102, 15, 210>>, <<"OVdq", "OWdq">>)>>],
    [mnem |-> "Psrad", encs |-> <<
         ModRMGroup(4, <<15, 114>>, <<"ONq", "OIb">>),
         ModRMGroup(4, <<102, 15, 114>>, <<"OUdq", "OIb">>),
         Ordinary(<<15, 226>>, <<"OPq", "OQq">>),
         Ordinary(<<102, 15, 226>>, <<"OVdq", "OWdq">>)>>],
    [mnem |-> "Pslld", encs |-> <<
         ModRMGroup(6, <<15, 114>>, <<"ONq", "OIb">>),
         ModRMGroup(6, <<102, 15, 114>>, <<"OUdq", "OIb">>),
         Ordinary(<<15, 242>>, <<"OPq", "OQq">>),
         Ordinary(<<102, 15, 242>>, <<"OVdq", "OWdq">>)>>],
    [mnem |-> "Psrlq", encs |-> <<
         ModRMGroup(2, <<15, 115>>, <<"ONq", "OIb">>),
         ModRMGroup(2, <<102, 15, 115>>, <<"OUdq", "OIb">>),
         Ordinary(<<15, 211>>, <<"OPq", "OQq">>),
         Ordinary(<<102, 15, 211>>, <<"OVdq", "OWdq">>)>>],
    [mnem |-> "Psrldq", encs |-> <<ModRMGroup(3, <<102, 15, 115>>, <<"OUdq", "OIb">>)>>],
    [mnem |-> "Psllq", encs |-> <<
         ModRMGroup(6, <<15, 115>>, <<"ONq", "OIb">>),
         ModRMGroup(6, <<102, 15, 115>>, <<"OUdq", "OIb">>),
         Ordinary(<<15, 243>>, <<"OPq", "OQq">>),
         Ordinary(<<102, 15, 243>>, <<"OVdq", "OWdq">>)>>],
    [mnem |-> "Pslldq", encs |-> <<ModRMGroup(7, <<102, 15, 115>>, <<"OUdq", "OIb">>)>>],
    [mnem |-> "Pcmpeqb", encs |-> <<
         Ordinary(<<15, 116>>, <<"OPq", "OQq">>),
         Ordinary(<<102, 15, 116>>, <<"OVdq", "OWdq">>)>>],
    [mnem |-> "Pcmpeqw", encs |-> <<
         Ordinary(<<15, 117>>, <<"OPq", "OQq">>),
         Ordinary(<<102, 15, 117>>, <<"OVdq", "OWdq">>)>>],
    [mnem |-> "Pcmpeqd", encs |-> <<
         Ordinary(<<15, 118>>, <<"OPq", "OQq">>),
         Ordinary(<<102, 15, 118>>, <<"OVdq", "OWdq">>)>>],
    [mnem |-> "Emms", encs |-> <<Ordinary(<<15, 119>>, <<>>)>>],
    [mnem |-> "Vmread", encs |-> <<Ordinary(<<15, 120>>, <<"OEd", "OGd">>)>>],
    [mnem |-> "Vmwrite", encs |-> <<Ordinary(<<15, 121>>, <<"OEd", "OGd">>)>>],
    [mnem |-> "Haddpd", encs |-> <<Ordinary(<<102, 15, 124>>, <<"OVpd", "OWpd">>)>>],
    [mnem |-> "Haddps", encs |-> <<Ordinary(<<242, 15, 124>>, <<"OVps", "OWps">>)>>],
    [mnem |-> "Hsubpd", encs |-> <<Ordinary(<<102, 15, 125>>, <<"OVpd", "OWpd">>)>>],
    [mnem |-> "Hsubps", encs |-> <<Ordinary(<<242, 15, 125>>, <<"OVps", "OWps">>)>>],
    [mnem |-> "Seto", encs |-> <<ModRMGroup(0, <<15, 144>>, <<"OEb">>)>>],
    [mnem |-> "Setno", encs |-> <<ModRMGroup(0, <<15, 145>>, <<"OEb">>)>>],
    [mnem |-> "Setb", encs |-> <<ModRMGroup(0, <<15, 146>>, <<"OEb">>)>>],
    [mnem |-> "Setae", encs |-> <<ModRMGroup(0, <<15, 147>>, <<"OEb">>)>>],
    [mnem |-> "Setz", encs |-> <<ModRMGroup(0, <<15, 148>>, <<"OEb">>)>>],
    [mnem |-> "Setnz", encs |-> <<ModRMGroup(0, <<15, 149>>, <<"OEb">>)>>],
    [mnem |-> "Setbe", encs |-> <<ModRMGroup(0, <<15, 150>>, <<"OEb">>)>>],
    [mnem |-> "Seta", encs |-> <<ModRMGroup(0, <<15, 151>>, <<"OEb">>)>>],
    [mnem |-> "Sets", encs |-> <<ModRMGroup(0, <<15, 152>>, <<"OEb">>)>>],
    [mnem |-> "Setns", encs |-> <<ModRMGroup(0, <<15, 153>>, <<"OEb">>)>>],
    [mnem |-> "Setp", encs |-> <<ModRMGroup(0, <<15, 154>>, <<"OEb">>)>>],
    [mnem |-> "Setnp", encs |-> <<ModRMGroup(0, <<15, 155>>, <<"OEb">>)>>],
    [mnem |-> "Setl", encs |-> <<ModRMGroup(0, <<15, 156>>, <<"OEb">>)>>],
    [mnem |-> "Setge", encs |-> <<ModRMGroup(0, <<15, 157>>, <<"OEb">>)>>],
    [mnem |-> "Setle", encs |-> <<ModRMGroup(0, <<15, 158>>, <<"OEb">>)>>],
    [mnem |-> "Setg", encs |-> <<ModRMGroup(0, <<15, 159>>, <<"OEb">>)>>],
    [mnem |-> "Cpuid", encs |-> <<Ordinary(<<15, 162>>, <<>>)>>],
    [mnem |-> "Bt", encs |-> <<
         Ordinary(<<15, 163>>, <<"OEv", "OGv">>),
         ModRMGroup(4, <<15, 186>>, <<"OEv", "OIb">>)>>],
    [mnem |-> "Shld", encs |-> <<
         Ordinary(<<15, 164>>, <<"OEv", "OGv", "OIb">>),
         Ordinary(<<15, 165>>, <<"OEv", "OGv", "OCL">>)>>],
    [mnem |-> "Rsm", encs |-> <<Ordinary(<<15, 170>>, <<>>)>>],
    [mnem |-> "Bts", encs |-> <<
         Ordinary(<<15, 171>>, <<"OEv", "OGv">>),
         ModRMGroup(5, <<15, 186>>, <<"OEv", "OIb">>)>>],
    [mnem |-> "Shrd", encs |-> <<
         Ordinary(<<15, 172>>, <<"OEv", "OGv", "OIb">>),
         Ordinary(<<15, 173>>, <<"OEv", "OGv", "OCL">>)>>],
    [mnem |-> "Fxsave", encs |-> <<ModRMGroup(0, <<15, 174>>, <<"OSimdState">>)>>],
    [mnem |-> "Fxrstor", encs |-> <<ModRMGroup(1, <<15, 174>>, <<"OSimdState">>)>>],
    [mnem |-> "Ldmxcsr", encs |-> <<ModRMGroup(2, <<15, 174>>, <<"OMd">>)>>],
    [mnem |-> "Stmxcsr", encs |-> <<ModRMGroup(3, <<15, 174>>, <<"OMd">>)>>],
    [mnem |-> "Clflush", encs |-> <<ModRMGroup(7, <<15, 174>>, <<"OMb">>)>>],
    [mnem |-> "Lfence", encs |-> <<Ordinary(<<15, 174, 232>>, <<>>)>>],
    [mnem |-> "Mfence", encs |-> <<Ordinary(<<15, 174, 240>>, <<>>)>>],
    [mnem |-> "Sfence", encs |-> <<Ordinary(<<15, 174, 248>>, <<>>)>>],
    [mnem |-> "Cmpxchg", encs |-> <<
         Ordinary(<<15, 176>>, <<"OEb", "OGb">>),
         Ordinary(<<15, 177>>, <<"OEv", "OGv">>)>>],
    [mnem |-> "Lss", encs |-> <<Ordinary(<<15, 178>>, <<"OGv", "OMp">>)>>],
    [mnem |-> "Btr", encs |-> <<
         Ordinary(<<15, 179>>, <<"OEv", "OGv">>),
         ModRMGroup(6, <<15, 186>>, <<"OEv", "OIb">>)>>],
    [mnem |-> "Lfs", encs |-> <<Ordinary(<<15, 180>>, <<"OGv", "OMp">>)>>],
    [mnem |-> "Lgs", encs |-> <<Ordinary(<<15, 181>>, <<"OGv", "OMp">>)>>],
    [mnem |-> "Movzx", encs |-> <<
         Ordinary(<<15, 182>>, <<"OGv", "OEb">>),
         Ordinary(<<15, 183>>, <<"OGv", "OEw">>)>>],
    [mnem |-> "Popcnt", encs |-> <<Ordinary(<<243, 15, 184>>, <<"OGv", "OEv">>)>>],
    [mnem |-> "Btc", encs |-> <<
         ModRMGroup(7, <<15, 186>>, <<"OEv", "OIb">>),
         Ordinary(<<15, 187>>, <<"OEv", "OGv">>)>>],
    [mnem |-> "Bsf", encs |-> <<Ordinary(<<15, 188>>, <<"OGv", "OEv">>)>>],
    [mnem |-> "Bsr", encs |-> <<Ordinary(<<15, 189>>, <<"OGv", "OEv">>)>>],
    [mnem |-> "Movsx", encs |-> <<
         Ordinary(<<15, 190>>, <<"OGv", "OEb">>),
         Ordinary(<<15, 191>>, <<"OGv", "OEw">>)>>],
    [mnem |-> "Xadd", encs |-> <<
         Ordinary(<<15, 192>>, <<"OEb", "OGb">>),
         Ordinary(<<15, 193>>, <<"OEv", "OGv">>)>>],
    [mnem |-> "Cmpps", encs |-> <<Ordinary(<<15, 194>>, <<"OVps", "OWps", "OIb">>)>>],
    [mnem |-> "Cmpss", encs |-> <<Ordinary(<<243, 15, 194>>, <<"OVss", "OWss", "OIb">>)>>],
    [mnem |-> "Cmppd", encs |-> <<Ordinary(<<102, 15, 194>>, <<"OVpd", "OWpd", "OIb">>)>>],
    [mnem |-> "Movnti", encs |-> <<Ordinary(<<15, 195>>, <<"OMd_q", "OGd_q">>)>>],
    [mnem |-> "Pinsrw", encs |-> <<
         Ordinary(<<15, 196>>, <<"OPq", "OEw", "OIb">>),
         Ordinary(<<102, 15, 196>>, <<"OVdq", "OEw", "OIb">>)>>],
    [mnem |-> "Pextrw", encs |-> <<
         Ordinary(<<15, 197>>, <<"OGd", "ONq", "OIb">>),
         Ordinary(<<102, 15, 197>>, <<"OGd", "OUdq", "OIb">>),
         Ordinary(<<102, 15, 58, 21>>, <<"ORd_Mw", "OVdq", "OIb">>)>>],
    [mnem |-> "Shufps", encs |-> <<Ordinary(<<15, 198>>, <<"OVps", "OWps", "OIb">>)>>],
    [mnem |-> "Shufpd", encs |-> <<Ordinary(<<102, 15, 198>>, <<"OVps", "OWps", "OIb">>)>>],
    [mnem |-> "Cmpxchg8b", encs |-> <<ModRMGroup(1, <<15, 199>>, <<"OMq">>)>>],
    [mnem |-> "Vmptrld", encs |-> <<ModRMGroup(6, <<15, 199>>, <<"OMq">>)>>],
    [mnem |-> "Vmxon", encs |-> <<ModRMGroup(6, <<243, 15, 199>>, <<"OMq">>)>>],
    [mnem |-> "Vmclear", encs |-> <<ModRMGroup(6, <<102, 15, 199>>, <<"OMq">>)>>],
    [mnem |-> "Vmptrst", encs |-> <<ModRMGroup(7, <<15, 199>>, <<"OMq">>)>>],
    [mnem |-> "Bswap", encs |-> <<
         Ordinary(<<15, 200>>, <<"OeAX">>),
         Ordinary(<<15, 201>>, <<"OeCX">>),
         Ordinary(<<15, 202>>, <<"OeDX">>),
         Ordinary(<<15, 203>>, <<"OeBX">>),
         Ordinary(<<15, 204>>, <<"OeSP">>),
         Ordinary(<<15, 205>>, <<"OeBP">>),
         Ordinary(<<15, 206>>, <<"OeSI">>),
         Ordinary(<<15, 207>>, <<"OeDI">>)>>],
    [mnem |-> "Addsubpd", encs |-> <<Ordinary(<<102, 15, 208>>, <<"OVpd", "OWpd">>)>>],
    [mnem |-> "Addsubps", encs |-> <<Ordinary(<<242, 15, 208>>, <<"OVps", "OWps">>)>>],
    [mnem |-> "Paddq", encs |-> <<
         Ordinary(<<15, 212>>, <<"OPq", "OQq">>),
         Ordinary(<<102, 15, 212>>, <<"OVdq", "OWdq">>)>>],
    [mnem |-> "Pmullw", encs |-> <<
         Ordinary(<<15, 213>>, <<"OPq", "OQq">>),
         Ordinary(<<102, 15, 213>>, <<"OVdq", "OWdq">>)>>],
    [mnem |-> "Movq2dq", encs |-> <<Ordinary(<<243, 15, 214>>, <<"OVdq", "ONq">>)>>],
    [mnem |-> "Movdq2q", encs |-> <<Ordinary(<<242, 15, 214>>, <<"OPq", "OUq">>)>>],
    [mnem |-> "Pmovmskb", encs |-> <<
         Ordinary(<<15, 215>>, <<"OGd", "ONq">>),
         Ordinary(<<102, 15, 215>>, <<"OGd", "OUdq">>)>>],
    [mnem |-> "Psubusb", encs |-> <<
         Ordinary(<<15, 216>>, <<"OPq", "OQq">>),
         Ordinary(<<102, 15, 216>>, <<"OVdq", "OWdq">>)>>],
    [mnem |-> "Psubusw", encs |-> <<
         Ordinary(<<15, 217>>, <<"OPq", "OQq">>),
         Ordinary(<<102, 15, 217>>, <<"OVdq", "OWdq">>)>>],
    [mnem |-> "Pminub", encs |-> <<
         Ordinary(<<15, 218>>, <<"OPq", "OQq">>),
         Ordinary(<<102, 15, 218>>, <<"OVdq", "OWdq">>)>>],
    [mnem |-> "Pand", encs |-> <<
         Ordinary(<<15, 219>>, <<"OPq", "OQq">>),
         Ordinary(<<102, 15, 219>>, <<"OVdq", "OWdq">>)>>],
    [mnem |-> "Paddusb", encs |-> <<
         Ordinary(<<15, 220>>, <<"OPq", "OQq">>),
         Ordinary(<<102, 15, 220>>, <<"OVdq", "OWdq">>)>>],
    [mnem |-> "Paddusw", encs |-> <<
         Ordinary(<<15, 221>>, <<"OPq", "OQq">>),
         Ordinary(<<102, 15, 221>>, <<"OVdq", "OWdq">>)>>],
    [mnem |-> "Pmaxub", encs |-> <<
         Ordinary(<<15, 222>>, <<"OPq", "OQq">>),
         Ordinary(<<102, 15, 222>>, <<"OVdq", "OWdq">>)>>],
    [mnem |-> "Pandn", encs |-> <<
         Ordinary(<<15, 223>>, <<"OPq", "OQq">>),
         Ordinary(<<102, 15, 223>>, <<"OVdq", "OWdq">>)>>],
    [mnem |-> "Pavgb", encs |-> <<
         Ordinary(<<15, 224>>, <<"OPq", "OQq">>),
         Ordinary(<<102, 15, 224>>, <<"OVdq", "OWdq">>)>>],
    [mnem |-> "Pavgw", encs |-> <<
         Ordinary(<<15, 227>>, <<"OPq", "OQq">>),
         Ordinary(<<102, 15, 227>>, <<"OVdq", "OWdq">>)>>],
    [mnem |-> "Pmulhuw", encs |-> <<
         Ordinary(<<15, 228>>, <<"OPq", "OQq">>),
         Ordinary(<<102, 15, 228>>, <<"OVdq", "OWdq">>)>>],
    [mnem |-> "Pmulhw", encs |-> <<
         Ordinary(<<15, 229>>, <<"OPq", "OQq">>),
         Ordinary(<<102, 15, 229>>, <<"OVdq", "OWdq">>)>>],
    [mnem |-> "Cvtdq2pd", encs |-> <<Ordinary(<<243, 15, 230>>, <<"OVpd", "OWdq">>)>>],
    [mnem |-> "Cvttpd2dq", encs |-> <<Ordinary(<<102, 15, 230>>, <<"OVdq", "OWpd">>)>>],
    [mnem |-> "Cvtpd2dq", encs |-> <<Ordinary(<<242, 15, 230>>, <<"OVdq", "OWpd">>)>>],
    [mnem |-> "Movntq", encs |-> <<Ordinary(<<15, 231>>, <<"OMq", "OPq">>)>>],
    [mnem |-> "Movntdq", encs |-> <<Ordinary(<<102, 15, 231>>, <<"OMdq", "OVdq">>)>>],
    [mnem |-> "Psubsb", encs |-> <<
         Ordinary(<<15, 232>>, <<"OPq", "OQq">>),
         Ordinary(<<102, 15, 232>>, <<"OVdq", "OWdq">>)>>],
    [mnem |-> "Psubsw", encs |-> <<
         Ordinary(<<15, 233>>, <<"OPq", "OQq">>),
         Ordinary(<<102, 15, 233>>, <<"OVdq", "OWdq">>)>>],
    [mnem |-> "Pminsw", encs |-> <<
         Ordinary(<<15, 234>>, <<"OPq", "OQq">>),
         Ordinary(<<102, 15, 234>>, <<"OVdq", "OWdq">>)>>],
    [mnem |-> "Por", encs |-> <<
         Ordinary(<<15, 235>>, <<"OPq", "OQq">>),
         Ordinary(<<102, 15, 235>>, <<"OVdq", "OWdq">>)>>],
    [mnem |-> "Paddsb", encs |-> <<
         Ordinary(<<15, 236>>, <<"OPq", "OQq">>),
         Ordinary(<<102, 15, 236>>, <<"OVdq", "OWdq">>)>>],
    [mnem |-> "Paddsw", encs |-> <<
         Ordinary(<<15, 237>>, <<"OPq", "OQq">>),
         Ordinary(<<102, 15, 237>>, <<"OVdq", "OWdq">>)>>],
    [mnem |-> "Pmaxsw", encs |-> <<
         Ordinary(<<15, 238>>, <<"OPq", "OQq">>),
         Ordinary(<<102, 15, 238>>, <<"OVdq", "OWdq">>)>>],
    [mnem |-> "Pxor", encs |-> <<
         Ordinary(<<15, 239>>, <<"OPq", "OQq">>),
         Ordinary(<<102, 15, 239>>, <<"OVdq", "OWdq">>)>>],
    [mnem |-> "Lddqu", encs |-> <<Ordinary(<<242, 15, 240>>, <<"OVdq", "OMdq">>)>>],
    [mnem |-> "Pmuludq", encs |-> <<
         Ordinary(<<15, 244>>, <<"OPq", "OQq">>),
         Ordinary(<<102, 15, 244>>, <<"OVdq", "OWdq">>)>>],
    [mnem |-> "Pmaddwd", encs |-> <<
         Ordinary(<<15, 245>>, <<"OPq", "OQq">>),
         Ordinary(<<102, 15, 245>>, <<"OVdq", "OWdq">>)>>],
    [mnem |-> "Psadbw", encs |-> <<
         Ordinary(<<15, 246>>, <<"OPq", "OQq">>),
         Ordinary(<<102, 15, 246>>, <<"OVdq", "OWdq">>)>>],
    [mnem |-> "Maskmovq", encs |-> <<Ordinary(<<15, 247>>, <<"OPq", "ONq">>)>>],
    [mnem |-> "Maskmovdqu", encs |-> <<Ordinary(<<102, 15, 247>>, <<"OVdq", "OUdq">>)>>],
    [mnem |-> "Psubb", encs |-> <<
         Ordinary(<<15, 248>>, <<"OPq", "OQq">>),
         Ordinary(<<102, 15, 248>>, <<"OVdq", "OWdq">>)>>],
    [mnem |-> "Psubw", encs |-> <<
         Ordinary(<<15, 249>>, <<"OPq", "OQq">>),
         Ordinary(<<102, 15, 249>>, <<"OVdq", "OWdq">>)>>],
    [mnem |-> "Psubd", encs |-> <<
         Ordinary(<<15, 250>>, <<"OPq", "OQq">>),
         Ordinary(<<102, 15, 250>>, <<"OVdq", "OWdq">>)>>],
    [mnem |-> "Psubq", encs |-> <<
         Ordinary(<<15, 251>>, <<"OPq", "OQq">>),
         Ordinary(<<102, 15, 251>>, <<"OVdq", "OWdq">>)>>],
    [mnem |-> "Paddb", encs |-> <<
         Ordinary(<<15, 252>>, <<"OPq", "OQq">>),
         Ordinary(<<102, 15, 252>>, <<"OVdq", "OWdq">>)>>],
    [mnem |-> "Paddw", encs |-> <<
         Ordinary(<<15, 253>>, <<"OPq", "OQq">>),
         Ordinary(<<102, 15, 253>>, <<"OVdq", "OWdq">>)>>],
    [mnem |-> "Paddd", encs |-> <<
         Ordinary(<<15, 254>>, <<"OPq", "OQq">>),
         Ordinary(<<102, 15, 254>>, <<"OVdq", "OWdq">>)>>],
    [mnem |-> "Pshufb", encs |-> <<
         Ordinary(<<15, 56, 0>>, <<"OPq", "OQq">>),
         Ordinary(<<102, 15, 56, 0>>, <<"OVdq", "OWdq">>)>>],
    [mnem |-> "Phaddw", encs |-> <<
         Ordinary(<<15, 56, 1>>, <<"OPq", "OQq">>),
         Ordinary(<<102, 15, 56, 1>>, <<"OVdq", "OWdq">>)>>],
    [mnem |-> "Phaddd", encs |-> <<
         Ordinary(<<15, 56, 2>>, <<"OPq", "OQq">>),
         Ordinary(<<102, 15, 56, 2>>, <<"OVdq", "OWdq">>)>>],
    [mnem |-> "Phaddsw", encs |-> <<
         Ordinary(<<15, 56, 3>>, <<"OPq", "OQq">>),
         Ordinary(<<102, 15, 56, 3>>, <<"OVdq", "OWdq">>)>>],
    [mnem |-> "Pmaddubsw", encs |-> <<
         Ordinary(<<15, 56, 4>>, <<"OPq", "OQq">>),
         Ordinary(<<102, 15, 56, 4>>, <<"OVdq", "OWdq">>)>>],
    [mnem |-> "Phsubw", encs |-> <<
         Ordinary(<<15, 56, 5>>, <<"OPq", "OQq">>),
         Ordinary(<<102, 15, 56, 5>>, <<"OVdq", "OWdq">>)>>],
    [mnem |-> "Phsubd", encs |-> <<
         Ordinary(<<15, 56, 6>>, <<"OPq", "OQq">>),
         Ordinary(<<102, 15, 56, 6>>, <<"OVdq", "OWdq">>)>>],
    [mnem |-> "Phsubsw", encs |-> <<
         Ordinary(<<15, 56, 7>>, <<"OPq", "OQq">>),
         Ordinary(<<102, 15, 56, 7>>, <<"OVdq", "OWdq">>)>>],
    [mnem |-> "Psignb", encs |-> <<
         Ordinary(<<15, 56, 8>>, <<"OPq", "OQq">>),
         Ordinary(<<102, 15, 56, 8>>, <<"OVdq", "OWdq">>)>>],
    [mnem |-> "Psignw", encs |-> <<
         Ordinary(<<15, 56, 9>>, <<"OPq", "OQq">>),
         Ordinary(<<102, 15, 56, 9>>, <<"OVdq", "OWdq">>)>>],
    [mnem |-> "Psignd", encs |-> <<
         Ordinary(<<15, 56, 10>>, <<"OPq", "OQq">>),
         Ordinary(<<102, 15, 56, 10>>, <<"OVdq", "OWdq">>)>>],
    [mnem |-> "Pmulhrsw", encs |-> <<
         Ordinary(<<15, 56, 11>>, <<"OPq", "OQq">>),
         Ordinary(<<102, 15, 56, 11>>, <<"OVdq", "OWdq">>)>>],
    [mnem |-> "Pblendvb", encs |-> <<Ordinary(<<102, 15, 56, 16>>, <<"OVdq", "OWdq">>)>>],
    [mnem |-> "Blendvps", encs |-> <<Ordinary(<<102, 15, 56, 20>>, <<"OVdq", "OWdq">>)>>],
    [mnem |-> "Blendvpd", encs |-> <<Ordinary(<<102, 15, 56, 21>>, <<"OVdq", "OWdq">>)>>],
    [mnem |-> "Ptest", encs |-> <<Ordinary(<<102, 15, 56, 23>>, <<"OVdq", "OWdq">>)>>],
    [mnem |-> "Pabsb", encs |-> <<
         Ordinary(<<15, 56, 28>>, <<"OPq", "OQq">>),
         Ordinary(<<102, 15, 56, 28>>, <<"OVdq", "OWdq">>)>>],
    [mnem |-> "Pabsw", encs |-> <<
         Ordinary(<<15, 56, 29>>, <<"OPq", "OQq">>),
         Ordinary(<<102, 15, 56, 29>>, <<"OVdq", "OWdq">>)>>],
    [mnem |-> "Pabsd", encs |-> <<
         Ordinary(<<15, 56, 30>>, <<"OPq", "OQq">>),
         Ordinary(<<102, 15, 56, 30>>, <<"OVdq", "OWdq">>)>>],
    [mnem |-> "Pmovsxbw", encs |-> <<Ordinary(<<102, 15, 56, 32>>, <<"OVdq", "OUdq_Mq">>)>>],
    [mnem |-> "Pmovsxbd", encs |-> <<Ordinary(<<102, 15, 56, 33>>, <<"OVdq", "OUdq_Md">>)>>],
    [mnem |-> "Pmovsxbq", encs |-> <<Ordinary(<<102, 15, 56, 34>>, <<"OVdq", "OUdq_Mw">>)>>],
    [mnem |-> "Pmovsxwd", encs |-> <<Ordinary(<<102, 15, 56, 35>>, <<"OVdq", "OUdq_Mq">>)>>],
    [mnem |-> "Pmovsxwq", encs |-> <<Ordinary(<<102, 15, 56, 36>>, <<"OVdq", "OUdq_Md">>)>>],
    [mnem |-> "Pmovsxdq", encs |-> <<Ordinary(<<102, 15, 56, 37>>, <<"OVdq", "OUdq_Mq">>)>>],
    [mnem |-> "Pmuldq", encs |-> <<Ordinary(<<102, 15, 56, 40>>, <<"OVdq", "OWdq">>)>>],
    [mnem |-> "Pcmpeqq", encs |-> <<Ordinary(<<102, 15, 56, 41>>, <<"OVdq", "OWdq">>)>>],
    [mnem |-> "Movntdqa", encs |-> <<Ordinary(<<102, 15, 56, 42>>, <<"OVdq", "OMdq">>)>>],
    [mnem |-> "Packusdw", encs |-> <<Ordinary(<<102, 15, 56, 43>>, <<"OVdq", "OWdq">>)>>],
    [mnem |-> "Pmovzxbw", encs |-> <<Ordinary(<<102, 15, 56, 48>>, <<"OVdq", "OUdq_Mq">>)>>],
    [mnem |-> "Pmovzxbd", encs |-> <<Ordinary(<<102, 15, 56, 49>>, <<"OVdq", "OUdq_Md">>)>>],
    [mnem |-> "Pmovzxbq", encs |-> <<Ordinary(<<102, 15, 56, 50>>, <<"OVdq", "OUdq_Mw">>)>>],
    [mnem |-> "Pmovzxwd", encs |-> <<Ordinary(<<102, 15, 56, 51>>, <<"OVdq", "OUdq_Mq">>)>>],
    [mnem |-> "Pmovzxwq", encs |-> <<Ordinary(<<102, 15, 56, 52>>, <<"OVdq", "OUdq_Md">>)>>],
    [mnem |-> "Pmovzxdq", encs |-> <<Ordinary(<<102, 15, 56, 53>>, <<"OVdq", "OUdq_Mq">>)>>],
    [mnem |-> "Pcmpgtq", encs |-> <<Ordinary(<<102, 15, 56, 55>>, <<"OVdq", "OWdq">>)>>],
    [mnem |-> "Pminsb", encs |-> <<Ordinary(<<102, 15, 56, 56>>, <<"OVdq", "OWdq">>)>>],
    [mnem |-> "Pminsd", encs |-> <<Ordinary(<<102, 15, 56, 57>>, <<"OVdq", "OWdq">>)>>],
    [mnem |-> "Pminuw", encs |-> <<Ordinary(<<102, 15, 56, 58>>, <<"OVdq", "OWdq">>)>>],
    [mnem |-> "Pminud", encs |-> <<Ordinary(<<102, 15, 56, 59>>, <<"OVdq", "OWdq">>)>>],
    [mnem |-> "Pmaxsb", encs |-> <<Ordinary(<<102, 15, 56, 60>>, <<"OVdq", "OWdq">>)>>],
    [mnem |-> "Pmaxsd", encs |-> <<Ordinary(<<102, 15, 56, 61>>, <<"OVdq", "OWdq">>)>>],
    [mnem |-> "Pmaxuw", encs |-> <<Ordinary(<<102, 15, 56, 62>>, <<"OVdq", "OWdq">>)>>],
    [mnem |-> "Pmaxud", encs |-> <<Ordinary(<<102, 15, 56, 63>>, <<"OVdq", "OWdq">>)>>],
    [mnem |-> "Pmulld", encs |-> <<Ordinary(<<102, 15, 56, 64>>, <<"OVdq", "OWdq">>)>>],
    [mnem |-> "Phminposuw", encs |-> <<Ordinary(<<102, 15, 56, 65>>, <<"OVdq", "OWdq">>)>>],
    [mnem |-> "Crc32", encs |-> <<
         Ordinary(<<15, 56, 240>>, <<"OGd", "OEb">>),
         Ordinary(<<15, 56, 241>>, <<"OGd", "OEv">>)>>],
    [mnem |-> "Roundps", encs |-> <<Ordinary(<<102, 15, 58, 8>>, <<"OVdq", "OWdq", "OIb">>)>>],
    [mnem |-> "Roundpd", encs |-> <<Ordinary(<<102, 15, 58, 9>>, <<"OVdq", "OWdq", "OIb">>)>>],
    [mnem |-> "Roundss", encs |-> <<Ordinary(<<102, 15, 58, 10>>, <<"OVss", "OWss", "OIb">>)>>],
    [mnem |-> "Roundsd", encs |-> <<Ordinary(<<102, 15, 58, 11>>, <<"OVsd", "OWsd", "OIb">>)>>],
    [mnem |-> "Blendps", encs |-> <<Ordinary(<<102, 15, 58, 12>>, <<"OVdq", "OWdq", "OIb">>)>>],
    [mnem |-> "Blendpd", encs |-> <<Ordinary(<<102, 15, 58, 13>>, <<"OVdq", "OWdq", "OIb">>)>>],
    [mnem |-> "Pblendw", encs |-> <<Ordinary(<<102, 15, 58, 14>>, <<"OVdq", "OWdq", "OIb">>)>>],
    [mnem |-> "Palignr", encs |-> <<
         Ordinary(<<15, 58, 15>>, <<"OPq", "OQq", "OIb">>),
         Ordinary(<<102, 15, 58, 15>>, <<"OVdq", "OWdq", "OIb">>)>>],
    [mnem |-> "Pextrb", encs |-> <<Ordinary(<<102, 15, 58, 20>>, <<"ORd_Mb", "OVdq", "OIb">>)>>],
    [mnem |-> "Pextrd", encs |-> <<Ordinary(<<102, 15, 58, 22>>, <<"OEd", "OVdq", "OIb">>)>>],
    [mnem |-> "Extractps", encs |-> <<Ordinary(<<102, 15, 58, 23>>, <<"OEd", "OVdq", "OIb">>)>>],
    [mnem |-> "Pinsrb", encs |-> <<Ordinary(<<102, 15, 58, 32>>, <<"OVdq", "OEd", "OIb">>)>>],
    [mnem |-> "Insertps", encs |-> <<
         Ordinary(<<102, 15, 58, 33>>, <<"OVdq", "OUdq_Md", "OIb">>)>>],
    [mnem |-> "Pinsrd", encs |-> <<Ordinary(<<102, 15, 58, 34>>, <<"OVdq", "OEd", "OIb">>)>>],
    [mnem |-> "Dpps", encs |-> <<Ordinary(<<102, 15, 58, 64>>, <<"OVdq", "OWdq", "OIb">>)>>],
    [mnem |-> "Dppd", encs |-> <<Ordinary(<<102, 15, 58, 65>>, <<"OVdq", "OWdq", "OIb">>)>>],
    [mnem |-> "Mpsadbw", encs |-> <<Ordinary(<<102, 15, 58, 66>>, <<"OVdq", "OWdq", "OIb">>)>>],
    [mnem |-> "Pcmpestrm", encs |-> <<Ordinary(<<102, 15, 58, 96>>, <<"OVdq", "OWdq", "OIb">>)>>],
    [mnem |-> "Pcmpestri", encs |-> <<Ordinary(<<102, 15, 58, 97>>, <<"OVdq", "OWdq", "OIb">>)>>],
    [mnem |-> "Pcmpistrm", encs |-> <<Ordinary(<<102, 15, 58, 98>>, <<"OVdq", "OWdq", "OIb">>)>>],
    [mnem |-> "Pcmpistri", encs |-> <<Ordinary(<<102, 15, 58, 99>>, <<"OVdq", "OWdq", "OIb">>)>>]
    >>

\* The mnemonics that have an entry.
EncodedMnemonics ==
    {mnem_to_encodings_entries[i].mnem : i \in DOMAIN mnem_to_encodings_entries}

\* The candidates of each mnemonic that has an entry.
EncodingsOf ==
    [m \in EncodedMnemonics |->
        mnem_to_encodings_entries[
            CHOOSE i \in DOMAIN mnem_to_encodings_entries :
                mnem_to_encodings_entries[i].mnem = m].encs]

\* mnem_to_encodings[instr.mnem.IntValue()].  The table starts as
\* [None]*(X86_LAST_MNEMONIC+1); listed = FALSE is an entry that was never
\* assigned (the conditional jumps).
mnem_to_encodings(mnem) ==
    IF mnem \in EncodedMnemonics THEN [listed |-> TRUE, encs |-> EncodingsOf[mnem]]
    ELSE [listed |-> FALSE, encs |-> <<>>]

----------------------------------------------------------------------------
(* X86Encoder                                                              *)

PrefixOfSeg(sg) ==
    CASE sg = "CS" -> 46 [] sg = "SS" -> 54 [] sg = "DS" -> 62
      [] sg = "ES" -> 38 [] sg = "FS" -> 100 [] sg = "GS" -> 101

NoModRM == [kind |-> None, m |-> NewModRM]

\* The encoder's members after Reset(); exc is the exception a step raised.
Reset == [group1pfx |-> None, stem |-> <<>>, segpfx |-> None, addrpfx |-> FALSE,
          sizepfx |-> FALSE, immediates |-> <<>>, modrm |-> NoModRM,
          addr |-> <<0, 0>>, exc |-> "none"]

\* The ModRM property: a ModRM16 or ModRM32 made on first access.
ModRM(e) ==
    IF e.modrm.kind = None
    THEN [kind |-> IF e.addrpfx THEN "16" ELSE "32", m |-> NewModRM]
    ELSE e.modrm

\* An append that extends the immediates twice.
AppendImmediate_Twice(e, imm, n) ==
    [e EXCEPT !.immediates = e.immediates \o little_endian_bytes(imm, n)
                                          \o little_endian_bytes(imm, n)]

AppendImmediate(e, imm, n) ==
    [e EXCEPT !.immediates = e.immediates \o little_endian_bytes(imm, n)]

\* X86Enc.Encode(encoder) of the three encoding classes.
EncEncode(enc, e) ==
    IF enc.cls = "Native16" THEN [e EXCEPT !.sizepfx = TRUE]
    ELSE IF enc.cls = "ModRMGroup"
    THEN [e EXCEPT !.modrm = [ModRM(e) EXCEPT !.m.GGG = enc.ggg]]
    ELSE e

\* A visit_Immediate_JccTarget that leaves the immediate out of instrlen.
visit_Immediate_JccTarget_StemOnly(e, op) ==
    LET instrlen == (IF e.segpfx # None THEN 1 ELSE 0) + (IF e.sizepfx THEN 1 ELSE 0)
                    + (IF e.addrpfx THEN 1 ELSE 0) + Len(e.stem)
        displacement == Sub32(op.taken, Add32(e.addr, U32(instrlen)))
    IN  IF e.addrpfx /\ Above16(op.taken) THEN [e EXCEPT !.exc = "NameError"]
        ELSE AppendImmediate(e, displacement, IF e.addrpfx THEN 2 ELSE 4)

\* dest > 0xFFFF holds for every destination of the model above W16 - 1.
visit_Immediate_JccTarget(e, op) ==
    LET dest == op.taken
        instrlen == (IF e.segpfx # None THEN 1 ELSE 0) + (IF e.sizepfx THEN 1 ELSE 0)
                    + (IF e.addrpfx THEN 1 ELSE 0) + Len(e.stem) + 4
        displacement == Sub32(dest, Add32(e.addr, U32(instrlen)))
    IN  IF e.addrpfx /\ Above16(dest) THEN [e EXCEPT !.exc = "NameError"]
        ELSE AppendImmediate(e, displacement, IF e.addrpfx THEN 2 ELSE 4)

visit_GPart(e, op) ==
    [e EXCEPT !.modrm = [ModRM(e) EXCEPT !.m.GGG = IntValue(RegList(op.k), op.r)]]

visit_RegOrMem_Register(e, op) ==
    [e EXCEPT !.modrm = [ModRM(e) EXCEPT !.m.MOD = 3,
                                         !.m.RM = IntValue(RegList(op.k), op.r)]]

visit_RegOrMem_Mem16(e, mem) ==
    LET Store(cur, m) == [e EXCEPT !.modrm = [cur EXCEPT !.m = [m EXCEPT !.GGG = cur.m.GGG]]]
    IN  Store(ModRM(e), EncodeFromParts16(mem.base, mem.index, mem.disp))

visit_RegOrMem_Mem32(e, mem) ==
    LET Store(cur, m) == [e EXCEPT !.modrm = [cur EXCEPT !.m = [m EXCEPT !.GGG = cur.m.GGG]]]
    IN  Store(ModRM(e), EncodeFromParts32(mem.base, mem.index, mem.scale, mem.disp))

\* The visit method MakeMethodName selects for a node that is not a prefix switch.
EncVisitLeaf(e, op, a) ==
    CASE a.t = "Exact"     -> e
      [] a.t = "GPart"     -> visit_GPart(e, op)
      [] a.t = "RegOrMem"  -> IF IsRegister(op) THEN visit_RegOrMem_Register(e, op)
                              ELSE IF op.k = "Mem16" THEN visit_RegOrMem_Mem16(e, op)
                              ELSE visit_RegOrMem_Mem32(e, op)
      [] a.t = "ImmEnc"    -> IF a.k = "JccTarget" THEN visit_Immediate_JccTarget(e, op)
                              ELSE AppendImmediate(e, op.v,
                                       IF a.k = "Ib" THEN 1 ELSE IF a.k = "Iw" THEN 2 ELSE 4)
      [] a.t = "SignedImm" -> IF a.k = "JccTarget" THEN visit_Immediate_JccTarget(e, op)
                              ELSE AppendImmediate(e, op.v, 1)

\* visit(instr.GetOp(i), AOTtoAOTDL[...]); visit_SizePrefix visits the yes
\* member when sizepfx is set and the no member otherwise.
EncVisit(e, op, aot) ==
    LET Member(a) == IF a.t # "SizePrefix" THEN a ELSE IF e.sizepfx THEN a.yes ELSE a.no
    IN  EncVisitLeaf(e, op, Member(AOTtoAOTDL(aot)))

\* "for i in xrange(len(enc.ops)): self.visit(...)"; an exception ends the loop.
RECURSIVE EncVisitOps(_, _, _, _)
EncVisitOps(e, ops, aots, i) ==
    IF i > Len(aots) \/ e.exc # "none" THEN e
    ELSE EncVisitOps(EncVisit(e, ops[i], aots[i]), ops, aots, i + 1)

\* ModRM.Encode() of the object the encoder holds.
ModRMEncode(mr) == IF mr.kind = "16" THEN Encode16(mr.m) ELSE Encode32(mr.m)

\* An assembly that puts 0x66 before 0x67.
Assemble_SizeBeforeAddr(e) ==
    (IF e.segpfx # None THEN <<PrefixOfSeg(e.segpfx)>> ELSE <<>>)
    \o (IF e.sizepfx THEN <<102>> ELSE <<>>)
    \o (IF e.addrpfx THEN <<103>> ELSE <<>>)
    \o (IF e.group1pfx # None THEN <<e.group1pfx>> ELSE <<>>)
    \o e.stem
    \o (IF e.modrm.kind # None THEN ModRMEncode(e.modrm) ELSE <<>>)
    \o e.immediates

\* The byte list EncodeInstruction puts together from the encoder's members.
Assemble(e) ==
    (IF e.segpfx # None THEN <<PrefixOfSeg(e.segpfx)>> ELSE <<>>)
    \o (IF e.addrpfx THEN <<103>> ELSE <<>>)
    \o (IF e.sizepfx THEN <<102>> ELSE <<>>)
    \o (IF e.group1pfx # None THEN <<e.group1pfx>> ELSE <<>>)
    \o e.stem
    \o (IF e.modrm.kind # None THEN ModRMEncode(e.modrm) ELSE <<>>)
    \o e.immediates

\* The index of the last encoding from i on that type-checks, 0 if none does.
RECURSIVE LastMatch(_, _, _)
LastMatch(instr, encs, i) ==
    LET Later(j) ==
            IF j # 0 THEN j
            ELSE IF TypeCheckInstruction_opt(instr, encs[i].ops).ok THEN i
            ELSE 0
    IN  IF i > Len(encs) THEN 0 ELSE Later(LastMatch(instr, encs, i + 1))

\* The index of the first encoding from i on that type-checks, 0 if none does.
RECURSIVE FirstMatch(_, _, _)
FirstMatch(instr, encs, i) ==
    IF i > Len(encs) THEN 0
    ELSE IF TypeCheckInstruction_opt(instr, encs[i].ops).ok THEN i
    ELSE FirstMatch(instr, encs, i + 1)

\* The encoder after the body of the loop for encoding enc with overrides val.
EncodeWith(e, instr, enc, val) ==
    LET e1 == [e EXCEPT !.sizepfx = val[1], !.addrpfx = val[2], !.segpfx = val[3],
                        !.stem = enc.bytes]
    IN  EncVisitOps(EncEncode(enc, e1), instr.ops, enc.ops, 1)

\* The loop of EncodeInstruction on the encoder e0 that Reset() and the
\* assignment of addr left: [exc, out, e, chosen]; e holds the encoder's
\* members when the call ends, chosen the encoding used.
EncodeFrom(e0, instr) ==
    LET Built(e, i) ==
            IF e.exc # "none"
            THEN [exc |-> e.exc, out |-> <<>>, e |-> e, chosen |-> i]
            ELSE [exc |-> "none", out |-> Assemble(e), e |-> e, chosen |-> i]
        Matched(enc, i) ==
            Built(EncodeWith(e0, instr, enc, TypeCheckInstruction_opt(instr, enc.ops).val), i)
        Found(encs, i) ==
            IF i = 0
            THEN [exc |-> "InvalidInstruction", out |-> <<>>, e |-> e0, chosen |-> 0]
            ELSE Matched(encs[i], i)
        Loop(tbl) ==
            IF ~tbl.listed THEN [exc |-> "TypeError", out |-> <<>>, e |-> e0, chosen |-> 0]
            ELSE Found(tbl.encs, FirstMatch(instr, tbl.encs, 1))
    IN  Loop(mnem_to_encodings(instr.mnem))

\* X86Encoder().EncodeInstruction(instr, addr), the call on a new encoder.
EncodeInstruction(instr, a) == EncodeFrom([Reset EXCEPT !.addr = a], instr)

\* A Reset() that leaves the list of immediates as it is.
ResetMembers_KeepImmediates(e) ==
    [group1pfx |-> None, stem |-> <<>>, segpfx |-> None, addrpfx |-> FALSE,
     sizepfx |-> FALSE, immediates |-> e.immediates, modrm |-> NoModRM,
     addr |-> e.addr, exc |-> "none"]

\* Reset() on an encoder whose members are e: seven members are assigned,
\* addr is left.
ResetMembers(e) ==
    [group1pfx |-> None, stem |-> <<>>, segpfx |-> None, addrpfx |-> FALSE,
     sizepfx |-> FALSE, immediates |-> <<>>, modrm |-> NoModRM,
     addr |-> e.addr, exc |-> "none"]

\* EncodeInstruction(instr, addr) on an encoder whose members are e:
\* "self.Reset(); self.addr = addr", then the loop.
EncodeInstructionOn(e, instr, a) == EncodeFrom([ResetMembers(e) EXCEPT !.addr = a], instr)

\* check_sizes of the encoder's type checker self.tc after the loop has tried
\* the encodings i..last.
RECURSIVE TriedEncodings(_, _, _, _, _)
TriedEncodings(cs, instr, encs, i, last) ==
    IF i > last THEN cs
    ELSE TriedEncodings(check_sizes_after(cs, instr, encs[i].ops), instr, encs, i + 1, last)

\* check_sizes of self.tc after EncodeInstruction(instr, addr) used encoding
\* chosen (0: none matched, every encoding was tried).
EncoderCheckSizes(cs, instr, chosen) ==
    LET Loop(tbl) ==
            IF ~tbl.listed THEN cs
            ELSE TriedEncodings(cs, instr, tbl.encs, 1,
                                IF chosen = 0 THEN Len(tbl.encs) ELSE chosen)
    IN  Loop(mnem_to_encodings(instr.mnem))

\* The members of the encoder object.
Members(e) ==
    [group1pfx |-> e.group1pfx, stem |-> e.stem, segpfx |-> e.segpfx,
     addrpfx |-> e.addrpfx, sizepfx |-> e.sizepfx, immediates |-> e.immediates,
     modrm |-> e.modrm, addr |-> e.addr]

\* X86Encoder(): Reset(), then addr = 0.
NewEncoder == Members(Reset)

NoEncoderOp == [op |-> "none"]

\* An address that is not advanced.
NextAddr_Same(curraddr, enc) == curraddr

\* "curraddr += len(enc)".  The address is kept modulo 2^32: its one use,
\* the displacement of a jump target, is masked with 0xFFFFFFFF.
NextAddr(curraddr, enc) == Add32(curraddr, U32(Len(enc)))

\* The loop of EncodeInstructions from instruction k on: [exc, out, e, cs],
\* e the encoder's members and cs the check_sizes of its type checker when
\* the loop ends; an exception of EncodeInstruction ends it.
RECURSIVE EncodeLoop(_, _, _, _, _, _)
EncodeLoop(instrs, k, curraddr, res, e, cs) ==
    LET Step(r, cs1) ==
            IF r.exc # "none" THEN [exc |-> r.exc, out |-> <<>>, e |-> Members(r.e), cs |-> cs1]
            ELSE EncodeLoop(instrs, k + 1, NextAddr(curraddr, r.out), res \o r.out,
                            Members(r.e), cs1)
        Call(r) == Step(r, EncoderCheckSizes(cs, instrs[k], r.chosen))
    IN  IF k > Len(instrs) THEN [exc |-> "none", out |-> res, e |-> e, cs |-> cs]
        ELSE Call(EncodeInstruction(instrs[k], curraddr))

----------------------------------------------------------------------------
(* X86DecodeTable and X86Decoder                                           *)

Direct(mnem, ops) == [t |-> "Direct", mnem |-> mnem, ops |-> ops]
Invalid == [t |-> "Invalid"]
Group(entries) == [t |-> "Group", entries |-> entries]
PredOpSize(orr, reg) == [t |-> "PredOpSize", overridden |-> orr, regular |-> reg]
SSE(no, rep, size, repne) == [t |-> "SSE", no |-> no, rep |-> rep, size |-> size, repne |-> repne]
RMGroup(entries) == [t |-> "RMGroup", entries |-> entries]
PredAddrSize(orr, reg) == [t |-> "PredAddrSize", overridden |-> orr, regular |-> reg]
PredMOD(orr, reg) == [t |-> "PredMOD", overridden |-> orr, regular |-> reg]
\* The placeholder at the positions of the prefix and escape bytes.
Fatal == [t |-> "Fatal"]

\* Shortcuts for SSE entries with only some of the four entries valid.
SSENo(no) == SSE(no, Invalid, Invalid, Invalid)
SSE66(se) == SSE(Invalid, Invalid, se, Invalid)
SSENo66(no, se) == SSE(no, Invalid, se, Invalid)

\* The decoding table: entry i + 1 is the entry of the normalised opcode i
\* (0x000.. one-byte opcodes, 0x100.. after 0F, 0x200.. after 0F 38, 0x300..
\* after 0F 3A).
decoding_table_entries ==
    <<
    \* 0x000
    Direct("Add", <<"OEb", "OGb">>),
    Direct("Add", <<"OEv", "OGv">>),
    Direct("Add", <<"OGb", "OEb">>),
    Direct("Add", <<"OGv", "OEv">>),
    Direct("Add", <<"OAL", "OIb">>),
    Direct("Add", <<"OrAX", "OIz">>),
    Direct("Push", <<"OES">>),
    Direct("Pop", <<"OES">>),
    Direct("Or", <<"OEb", "OGb">>),
    Direct("Or", <<"OEv", "OGv">>),
    Direct("Or", <<"OGb", "OEb">>),
    Direct("Or", <<"OGv", "OEv">>),
    Direct("Or", <<"OAL", "OIb">>),
    Direct("Or", <<"OrAX", "OIz">>),
    Direct("Push", <<"OCS">>),
    Fatal,
    \* 0x010
    Direct("Adc", <<"OEb", "OGb">>),
    Direct("Adc", <<"OEv", "OGv">>),
    Direct("Adc", <<"OGb", "OEb">>),
    Direct("Adc", <<"OGv", "OEv">>),
    Direct("Adc", <<"OAL", "OIb">>),
    Direct("Adc", <<"OrAX", "OIz">>),
    Direct("Push", <<"OSS">>),
    Direct("Pop", <<"OSS">>),
    Direct("Sbb", <<"OEb", "OGb">>),
    Direct("Sbb", <<"OEv", "OGv">>),
    Direct("Sbb", <<"OGb", "OEb">>),
    Direct("Sbb", <<"OGv", "OEv">>),
    Direct("Sbb", <<"OAL", "OIb">>),
    Direct("Sbb", <<"OrAX", "OIz">>),
    Direct("Push", <<"ODS">>),
    Direct("Pop", <<"ODS">>),
    \* 0x020
    Direct("And", <<"OEb", "OGb">>),
    Direct("And", <<"OEv", "OGv">>),
    Direct("And", <<"OGb", "OEb">>),
    Direct("And", <<"OGv", "OEv">>),
    Direct("And", <<"OAL", "OIb">>),
    Direct("And", <<"OrAX", "OIz">>),
    Fatal,
    Direct("Daa", <<>>),
    Direct("Sub", <<"OEb", "OGb">>),
    Direct("Sub", <<"OEv", "OGv">>),
    Direct("Sub", <<"OGb", "OEb">>),
    Direct("Sub", <<"OGv", "OEv">>),
    Direct("Sub", <<"OAL", "OIb">>),
    Direct("Sub", <<"OrAX", "OIz">>),
    Fatal,
    Direct("Das", <<>>),
    \* 0x030
    Direct("Xor", <<"OEb", "OGb">>),
    Direct("Xor", <<"OEv", "OGv">>),
    Direct("Xor", <<"OGb", "OEb">>),
    Direct("Xor", <<"OGv", "OEv">>),
    Direct("Xor", <<"OAL", "OIb">>),
    Direct("Xor", <<"OrAX", "OIz">>),
    Fatal,
    Direct("Aaa", <<>>),
    Direct("Cmp", <<"OEb", "OGb">>),
    Direct("Cmp", <<"OEv", "OGv">>),
    Direct("Cmp", <<"OGb", "OEb">>),
    Direct("Cmp", <<"OGv", "OEv">>),
    Direct("Cmp", <<"OAL", "OIb">>),
    Direct("Cmp", <<"OrAX", "OIz">>),
    Fatal,
    Direct("Aas", <<>>),
    \* 0x040
    Direct("Inc", <<"OeAX">>),
    Direct("Inc", <<"OeCX">>),
    Direct("Inc", <<"OeDX">>),
    Direct("Inc", <<"OeBX">>),
    Direct("Inc", <<"OeSP">>),
    Direct("Inc", <<"OeBP">>),
    Direct("Inc", <<"OeSI">>),
    Direct("Inc", <<"OeDI">>),
    Direct("Dec", <<"OeAX">>),
    Direct("Dec", <<"OeCX">>),
    Direct("Dec", <<"OeDX">>),
    Direct("Dec", <<"OeBX">>),
    Direct("Dec", <<"OeSP">>),
    Direct("Dec", <<"OeBP">>),
    Direct("Dec", <<"OeSI">>),
    Direct("Dec", <<"OeDI">>),
    \* 0x050
    Direct("Push", <<"OrAXr8">>),
    Direct("Push", <<"OrCXr9">>),
    Direct("Push", <<"OrDXr10">>),
    Direct("Push", <<"OrBXr11">>),
    Direct("Push", <<"OrSPr12">>),
    Direct("Push", <<"OrBPr13">>),
    Direct("Push", <<"OrSIr14">>),
    Direct("Push", <<"OrDIr15">>),
    Direct("Pop", <<"OrAXr8">>),
    Direct("Pop", <<"OrCXr9">>),
    Direct("Pop", <<"OrDXr10">>),
    Direct("Pop", <<"OrBXr11">>),
    Direct("Pop", <<"OrSPr12">>),
    Direct("Pop", <<"OrBPr13">>),
    Direct("Pop", <<"OrSIr14">>),
    Direct("Pop", <<"OrDIr15">>),
    \* 0x060
    PredOpSize(Direct("Pushaw", <<>>), Direct("Pushad", <<>>)),
    PredOpSize(Direct("Popaw", <<>>), Direct("Popad", <<>>)),
    Direct("Bound", <<"OGv", "OMa">>),
    Direct("Arpl", <<"OEw", "OGw">>),
    Fatal,
    Fatal,
    Fatal,
    Fatal,
    Direct("Push", <<"OIz">>),
    Direct("Imul", <<"OGv", "OEv", "OIz">>),
    Direct("Push", <<"OIbv">>),
    Direct("Imul", <<"OGv", "OEv", "OIb">>),
    Direct("Insb", <<"OYb", "ODX">>),
    PredOpSize(Direct("Insw", <<"OYz", "ODX">>), Direct("Insd", <<"OYz", "ODX">>)),
    Direct("Outsb", <<"ODX", "OXb">>),
    PredOpSize(Direct("Outsw", <<"ODX", "OXz">>), Direct("Outsd", <<"ODX", "OXz">>)),
    \* 0x070
    Direct("Jo", <<"OJb">>),
    Direct("Jno", <<"OJb">>),
    Direct("Jb", <<"OJb">>),
    Direct("Jae", <<"OJb">>),
    Direct("Jz", <<"OJb">>),
    Direct("Jnz", <<"OJb">>),
    Direct("Jbe", <<"OJb">>),
    Direct("Ja", <<"OJb">>),
    Direct("Js", <<"OJb">>),
    Direct("Jns", <<"OJb">>),
    Direct("Jp", <<"OJb">>),
    Direct("Jnp", <<"OJb">>),
    Direct("Jl", <<"OJb">>),
    Direct("Jge", <<"OJb">>),
    Direct("Jle", <<"OJb">>),
    Direct("Jg", <<"OJb">>),
    \* 0x080
    Group(<<Direct("Add", <<"OEb", "OIb">>), Direct("Or", <<"OEb", "OIb">>), Direct("Adc",
        <<"OEb", "OIb">>), Direct("Sbb", <<"OEb", "OIb">>), Direct("And", <<"OEb", "OIb">>),
        Direct("Sub", <<"OEb", "OIb">>), Direct("Xor", <<"OEb", "OIb">>), Direct("Cmp", <<"OEb",
        "OIb">>)>>),
    Group(<<Direct("Add", <<"OEv", "OIz">>), Direct("Or", <<"OEv", "OIz">>), Direct("Adc",
        <<"OEv", "OIz">>), Direct("Sbb", <<"OEv", "OIz">>), Direct("And", <<"OEv", "OIz">>),
        Direct("Sub", <<"OEv", "OIz">>), Direct("Xor", <<"OEv", "OIz">>), Direct("Cmp", <<"OEv",
        "OIz">>)>>),
    Group(<<Direct("Add", <<"OEb", "OIb">>), Direct("Or", <<"OEb", "OIb">>), Direct("Adc",
        <<"OEb", "OIb">>), Direct("Sbb", <<"OEb", "OIb">>), Direct("And", <<"OEb", "OIb">>),
        Direct("Sub", <<"OEb", "OIb">>), Direct("Xor", <<"OEb", "OIb">>), Direct("Cmp", <<"OEb",
        "OIb">>)>>),
    Group(<<Direct("Add", <<"OEv", "OIbv">>), Direct("Or", <<"OEv", "OIbv">>), Direct("Adc",
        <<"OEv", "OIbv">>), Direct("Sbb", <<"OEv", "OIbv">>), Direct("And", <<"OEv", "OIbv">>),
        Direct("Sub", <<"OEv", "OIbv">>), Direct("Xor", <<"OEv", "OIbv">>), Direct("Cmp",
        <<"OEv", "OIbv">>)>>),
    Direct("Test", <<"OEb", "OGb">>),
    Direct("Test", <<"OEv", "OGv">>),
    Direct("Xchg", <<"OEb", "OGb">>),
    Direct("Xchg", <<"OEv", "OGv">>),
    Direct("Mov", <<"OEb", "OGb">>),
    Direct("Mov", <<"OEv", "OGv">>),
    Direct("Mov", <<"OGb", "OEb">>),
    Direct("Mov", <<"OGv", "OEv">>),
    Direct("Mov", <<"OEv", "OSw">>),
    Direct("Lea", <<"OGv", "OM">>),
    Direct("Mov", <<"OSw", "OEw">>),
    Group(<<Direct("Pop", <<"OEv">>), Invalid, Invalid, Invalid, Invalid, Invalid, Invalid,
        Invalid>>),
    \* 0x090
    SSE(Direct("Nop", <<>>), Direct("Pause", <<>>), Direct("Nop", <<>>), Direct("Nop", <<>>)),
    Direct("Xchg", <<"OrAX", "OrCXr9">>),
    Direct("Xchg", <<"OrAX", "OrDXr10">>),
    Direct("Xchg", <<"OrAX", "OrBXr11">>),
    Direct("Xchg", <<"OrAX", "OrSPr12">>),
    Direct("Xchg", <<"OrAX", "OrBPr13">>),
    Direct("Xchg", <<"OrAX", "OrSIr14">>),
    Direct("Xchg", <<"OrAX", "OrDIr15">>),
    PredOpSize(Direct("Cbw", <<>>), Direct("Cwde", <<>>)),
    PredOpSize(Direct("Cwd", <<>>), Direct("Cdq", <<>>)),
    Direct("CallF", <<"OAp">>),
    Direct("Wait", <<>>),
    PredOpSize(Direct("Pushfw", <<>>), Direct("Pushfd", <<>>)),
    PredOpSize(Direct("Popfw", <<>>), Direct("Popfd", <<>>)),
    Direct("Sahf", <<>>),
    Direct("Lahf", <<>>),
    \* 0x0A0
    Direct("Mov", <<"OAL", "OOb">>),
    Direct("Mov", <<"OrAX", "OOv">>),
    Direct("Mov", <<"OOb", "OAL">>),
    Direct("Mov", <<"OOv", "OrAX">>),
    Direct("Movsb", <<"OXb", "OYb">>),
    PredOpSize(Direct("Movsw", <<"OXv", "OYv">>), Direct("Movsd", <<"OXv", "OYv">>)),
    Direct("Cmpsb", <<"OXb", "OYb">>),
    PredOpSize(Direct("Cmpsw", <<"OXv", "OYv">>), Direct("Cmpsd", <<"OXv", "OYv">>)),
    Direct("Test", <<"OAL", "OIb">>),
    Direct("Test", <<"OrAX", "OIz">>),
    Direct("Stosb", <<"OYb">>),
    PredOpSize(Direct("Stosw", <<"OYv">>), Direct("Stosd", <<"OYv">>)),
    Direct("Lodsb", <<"OXb">>),
    PredOpSize(Direct("Lodsw", <<"OXv">>), Direct("Lodsd", <<"OXv">>)),
    Direct("Scasb", <<"OYb">>),
    PredOpSize(Direct("Scasw", <<"OYv">>), Direct("Scasd", <<"OYv">>)),
    \* 0x0B0
    Direct("Mov", <<"OALR8L", "OIb">>),
    Direct("Mov", <<"OCLR9L", "OIb">>),
    Direct("Mov", <<"ODLR10L", "OIb">>),
    Direct("Mov", <<"OBLR11L", "OIb">>),
    Direct("Mov", <<"OAHR12L", "OIb">>),
    Direct("Mov", <<"OCHR13L", "OIb">>),
    Direct("Mov", <<"ODHR14L", "OIb">>),
    Direct("Mov", <<"OBHR15L", "OIb">>),
    Direct("Mov", <<"OrAXr8", "OIv">>),
    Direct("Mov", <<"OrCXr9", "OIv">>),
    Direct("Mov", <<"OrDXr10", "OIv">>),
    Direct("Mov", <<"OrBXr11", "OIv">>),
    Direct("Mov", <<"OrSPr12", "OIv">>),
    Direct("Mov", <<"OrBPr13", "OIv">>),
    Direct("Mov", <<"OrSIr14", "OIv">>),
    Direct("Mov", <<"OrDIr15", "OIv">>),
    \* 0x0C0
    Group(<<Direct("Rol", <<"OEb", "OIb">>), Direct("Ror", <<"OEb", "OIb">>), Direct("Rcl",
        <<"OEb", "OIb">>), Direct("Rcr", <<"OEb", "OIb">>), Direct("Shl", <<"OEb", "OIb">>),
        Direct("Shr", <<"OEb", "OIb">>), Direct("Sal", <<"OEb", "OIb">>), Direct("Sar", <<"OEb",
        "OIb">>)>>),
    Group(<<Direct("Rol", <<"OEv", "OIb">>), Direct("Ror", <<"OEv", "OIb">>), Direct("Rcl",
        <<"OEv", "OIb">>), Direct("Rcr", <<"OEv", "OIb">>), Direct("Shl", <<"OEv", "OIb">>),
        Direct("Shr", <<"OEv", "OIb">>), Direct("Sal", <<"OEv", "OIb">>), Direct("Sar", <<"OEv",
        "OIb">>)>>),
    Direct("Ret", <<"OIw">>),
    Direct("Ret", <<>>),
    Direct("Les", <<"OGz", "OMp">>),
    Direct("Lds", <<"OGz", "OMp">>),
    Group(<<Direct("Mov", <<"OEb", "OIb">>), Invalid, Invalid, Invalid, Invalid, Invalid,
        Invalid, Invalid>>),
    Group(<<Direct("Mov", <<"OEv", "OIz">>), Invalid, Invalid, Invalid, Invalid, Invalid,
        Invalid, Invalid>>),
    Direct("Enter", <<"OIw", "OIb">>),
    Direct("Leave", <<>>),
    Direct("Retf", <<"OIw">>),
    Direct("Retf", <<>>),
    Direct("Int3", <<>>),
    Direct("Int", <<"OIb">>),
    Direct("Into", <<>>),
    PredOpSize(Direct("Iretw", <<>>), Direct("Iretd", <<>>)),
    \* 0x0D0
    Group(<<Direct("Rol", <<"OEb", "O1">>), Direct("Ror", <<"OEb", "O1">>), Direct("Rcl",
        <<"OEb", "O1">>), Direct("Rcr", <<"OEb", "O1">>), Direct("Shl", <<"OEb", "O1">>),
        Direct("Shr", <<"OEb", "O1">>), Direct("Sal", <<"OEb", "O1">>), Direct("Sar", <<"OEb",
        "O1">>)>>),
    Group(<<Direct("Rol", <<"OEv", "O1">>), Direct("Ror", <<"OEv", "O1">>), Direct("Rcl",
        <<"OEv", "O1">>), Direct("Rcr", <<"OEv", "O1">>), Direct("Shl", <<"OEv", "O1">>),
        Direct("Shr", <<"OEv", "O1">>), Direct("Sal", <<"OEv", "O1">>), Direct("Sar", <<"OEv",
        "O1">>)>>),
    Group(<<Direct("Rol", <<"OEb", "OCL">>), Direct("Ror", <<"OEb", "OCL">>), Direct("Rcl",
        <<"OEb", "OCL">>), Direct("Rcr", <<"OEb", "OCL">>), Direct("Shl", <<"OEb", "OCL">>),
        Direct("Shr", <<"OEb", "OCL">>), Direct("Sal", <<"OEb", "OCL">>), Direct("Sar", <<"OEb",
        "OCL">>)>>),
    Group(<<Direct("Rol", <<"OEv", "OCL">>), Direct("Ror", <<"OEv", "OCL">>), Direct("Rcl",
        <<"OEv", "OCL">>), Direct("Rcr", <<"OEv", "OCL">>), Direct("Shl", <<"OEv", "OCL">>),
        Direct("Shr", <<"OEv", "OCL">>), Direct("Sal", <<"OEv", "OCL">>), Direct("Sar", <<"OEv",
        "OCL">>)>>),
    Direct("Aam", <<"OIb">>),
    Direct("Aad", <<"OIb">>),
    Direct("Salc", <<>>),
    PredAddrSize(Direct("Xlat", <<"OMbBx">>), Direct("Xlat", <<"OMbEbx">>)),
    PredMOD(Group(<<Direct("Fadd", <<"OSt0", "OReal4">>), Direct("Fmul", <<"OSt0", "OReal4">>),
        Direct("Fcom", <<"OSt0", "OReal4">>), Direct("Fcomp", <<"OSt0", "OReal4">>),
        Direct("Fsub", <<"OSt0", "OReal4">>), Direct("Fsubr", <<"OSt0", "OReal4">>),
        Direct("Fdiv", <<"OSt0", "OReal4">>), Direct("Fdivr", <<"OSt0", "OReal4">>)>>),
        Group(<<Direct("Fadd", <<"OSt0", "OStN">>), Direct("Fmul", <<"OSt0", "OStN">>),
        Direct("Fcom", <<"OSt0", "OStN">>), Direct("Fcomp", <<"OSt0", "OStN">>), Direct("Fsub",
        <<"OSt0", "OStN">>), Direct("Fsubr", <<"OSt0", "OStN">>), Direct("Fdiv", <<"OSt0",
        "OStN">>), Direct("Fdivr", <<"OSt0", "OStN">>)>>)),
    PredMOD(Group(<<Direct("Fld", <<"OReal4">>), Invalid, Direct("Fst", <<"OReal4">>),
        Direct("Fstp", <<"OReal4">>), Direct("Fldenv", <<"OFPEnvLow">>), Direct("Fldcw",
        <<"OMw">>), Direct("Fstenv", <<"OFPEnvLow">>), Direct("Fstcw", <<"OMw">>)>>),
        Group(<<Direct("Fld", <<"OSt0", "OStN">>), Direct("Fxch", <<"OSt0", "OStN">>),
        RMGroup(<<Direct("Fnop", <<>>), Invalid, Invalid, Invalid, Invalid, Invalid, Invalid,
        Invalid>>), Invalid, RMGroup(<<Direct("Fchs", <<>>), Direct("Fabs", <<>>), Invalid,
        Invalid, Direct("Ftst", <<>>), Direct("Fxam", <<>>), Invalid, Invalid>>),
        RMGroup(<<Direct("Fld1", <<>>), Direct("Fldl2t", <<>>), Direct("Fldl2e", <<>>),
        Direct("Fldpi", <<>>), Direct("Fldlg2", <<>>), Direct("Fldln2", <<>>), Direct("Fldz",
        <<>>), Invalid>>), RMGroup(<<Direct("F2xm1", <<>>), Direct("Fyl2x", <<>>),
        Direct("Fptan", <<>>), Direct("Fpatan", <<>>), Direct("Fxtract", <<>>), Direct("Fprem1",
        <<>>), Direct("Fdecstp", <<>>), Direct("Fincstp", <<>>)>>), RMGroup(<<Direct("Fprem",
        <<>>), Direct("Fyl2xp1", <<>>), Direct("Fsqrt", <<>>), Direct("Fsincos", <<>>),
        Direct("Frndint", <<>>), Direct("Fscale", <<>>), Direct("Fsin", <<>>), Direct("Fcos",
        <<>>)>>)>>)),
    PredMOD(Group(<<Direct("Fiadd", <<"OMd">>), Direct("Fimul", <<"OMd">>), Direct("Ficom",
        <<"OMd">>), Direct("Ficomp", <<"OMd">>), Direct("Fisub", <<"OMd">>), Direct("Fisubr",
        <<"OMd">>), Direct("Fidiv", <<"OMd">>), Direct("Fidivr", <<"OMd">>)>>),
        Group(<<Direct("Fcmovb", <<"OSt0", "OStN">>), Direct("Fcmove", <<"OSt0", "OStN">>),
        Direct("Fcmovbe", <<"OSt0", "OStN">>), Direct("Fcmovu", <<"OSt0", "OStN">>), Invalid,
        RMGroup(<<Invalid, Direct("Fucompp", <<>>), Invalid, Invalid, Invalid, Invalid, Invalid,
        Invalid>>), Invalid, Invalid>>)),
    PredMOD(Group(<<Direct("Fild", <<"OMd">>), Direct("Fisttp", <<"OMd">>), Direct("Fist",
        <<"OMd">>), Direct("Fistp", <<"OMd">>), Invalid, Direct("Fld", <<"OReal10">>), Invalid,
        Direct("Fstp", <<"OReal10">>)>>), Group(<<Direct("Fcmovnb", <<"OSt0", "OStN">>),
        Direct("Fcmovne", <<"OSt0", "OStN">>), Direct("Fcmovnbe", <<"OSt0", "OStN">>),
        Direct("Fcmovnu", <<"OSt0", "OStN">>), RMGroup(<<Invalid, Invalid, Direct("Fclex", <<>>),
        Direct("Finit", <<>>), Invalid, Invalid, Invalid, Invalid>>), Direct("Fucomi", <<"OSt0",
        "OStN">>), Direct("Fcomi", <<"OSt0", "OStN">>), Invalid>>)),
    PredMOD(Group(<<Direct("Fadd", <<"OSt0", "OReal8">>), Direct("Fmul", <<"OSt0", "OReal8">>),
        Direct("Fcom", <<"OSt0", "OReal8">>), Direct("Fcomp", <<"OSt0", "OReal8">>),
        Direct("Fsub", <<"OSt0", "OReal8">>), Direct("Fsubr", <<"OSt0", "OReal8">>),
        Direct("Fdiv", <<"OSt0", "OReal8">>), Direct("Fdivr", <<"OSt0", "OReal8">>)>>),
        Group(<<Direct("Fadd", <<"OStN", "OSt0">>), Direct("Fmul", <<"OStN", "OSt0">>), Invalid,
        Invalid, Direct("Fsub", <<"OStN", "OSt0">>), Direct("Fsubr", <<"OStN", "OSt0">>),
        Direct("Fdiv", <<"OStN", "OSt0">>), Direct("Fdivr", <<"OStN", "OSt0">>)>>)),
    PredMOD(Group(<<Direct("Fld", <<"OReal8">>), Direct("Fisttp", <<"OMq">>), Direct("Fst",
        <<"OReal8">>), Direct("Fstp", <<"OReal8">>), Direct("Frstor", <<"OFPEnv">>), Invalid,
        Direct("Fsave", <<"OFPEnv">>), Direct("Fstsw", <<"OMw">>)>>), Group(<<Direct("Ffree",
        <<"OStN">>), Invalid, Direct("Fst", <<"OStN">>), Direct("Fstp", <<"OStN">>),
        Direct("Fucom", <<"OStN">>), Direct("Fucomp", <<"OStN">>), Invalid, Invalid>>)),
    PredMOD(Group(<<Direct("Fiadd", <<"OMw">>), Direct("Fimul", <<"OMw">>), Direct("Ficom",
        <<"OMw">>), Direct("Ficomp", <<"OMw">>), Direct("Fisub", <<"OMw">>), Direct("Fisubr",
        <<"OMw">>), Direct("Fidiv", <<"OMw">>), Direct("Fidivr", <<"OMw">>)>>),
        Group(<<Direct("Faddp", <<"OStN", "OSt0">>), Direct("Fmulp", <<"OStN", "OSt0">>),
        Invalid, RMGroup(<<Invalid, Direct("Fcompp", <<>>), Invalid, Invalid, Invalid, Invalid,
        Invalid, Invalid>>), Direct("Fsubrp", <<"OStN", "OSt0">>), Direct("Fsubp", <<"OStN",
        "OSt0">>), Direct("Fdivrp", <<"OStN", "OSt0">>), Direct("Fdivp", <<"OStN", "OSt0">>)>>)),
    PredMOD(Group(<<Direct("Fild", <<"OMw">>), Direct("Fisttp", <<"OMw">>), Direct("Fist",
        <<"OMw">>), Direct("Fistp", <<"OMw">>), Direct("Fbld", <<"OReal10">>), Direct("Fild",
        <<"OReal8">>), Direct("Fbstp", <<"OReal10">>), Direct("Fistp", <<"OReal8">>)>>),
        Group(<<Invalid, Invalid, Invalid, Invalid, RMGroup(<<Direct("Fstsw", <<"OAX">>),
        Invalid, Invalid, Invalid, Invalid, Invalid, Invalid, Invalid>>), Direct("Fucomip",
        <<"OSt0", "OStN">>), Direct("Fcomip", <<"OSt0", "OStN">>), Invalid>>)),
    \* 0x0E0
    Direct("Loopnz", <<"OJb">>),
    Direct("Loopz", <<"OJb">>),
    Direct("Loop", <<"OJb">>),
    PredAddrSize(Direct("Jcxz", <<"OJb">>), Direct("Jecxz", <<"OJb">>)),
    Direct("In", <<"OAL", "OIb">>),
    Direct("In", <<"OeAX", "OIb">>),
    Direct("Out", <<"OIb", "OAL">>),
    Direct("Out", <<"OIb", "OeAX">>),
    Direct("Call", <<"OJz">>),
    Direct("Jmp", <<"OJz">>),
    Direct("JmpF", <<"OAp">>),
    Direct("Jmp", <<"OJb">>),
    Direct("In", <<"OAL", "ODX">>),
    Direct("In", <<"OeAX", "ODX">>),
    Direct("Out", <<"ODX", "OAL">>),
    Direct("Out", <<"ODX", "OeAX">>),
    \* 0x0F0
    Fatal,
    Direct("Icebp", <<>>),
    Fatal,
    Fatal,
    Direct("Hlt", <<>>),
    Direct("Cmc", <<>>),
    Group(<<Direct("Test", <<"OEb", "OIb">>), Invalid, Direct("Not", <<"OEb">>), Direct("Neg",
        <<"OEb">>), Direct("Mul", <<"OEb">>), Direct("Imul", <<"OEb">>), Direct("Div",
        <<"OEb">>), Direct("Idiv", <<"OEb">>)>>),
    Group(<<Direct("Test", <<"OEv", "OIz">>), Invalid, Direct("Not", <<"OEv">>), Direct("Neg",
        <<"OEv">>), Direct("Mul", <<"OEv">>), Direct("Imul", <<"OEv">>), Direct("Div",
        <<"OEv">>), Direct("Idiv", <<"OEv">>)>>),
    Direct("Clc", <<>>),
    Direct("Stc", <<>>),
    Direct("Cli", <<>>),
    Direct("Sti", <<>>),
    Direct("Cld", <<>>),
    Direct("Std", <<>>),
    Group(<<Direct("Inc", <<"OEb">>), Direct("Dec", <<"OEb">>), Invalid, Invalid, Invalid,
        Invalid, Invalid, Invalid>>),
    Group(<<Direct("Inc", <<"OEv">>), Direct("Dec", <<"OEv">>), Direct("Call", <<"OEv">>),
        Direct("CallF", <<"OEv">>), Direct("Jmp", <<"OEv">>), Direct("JmpF", <<"OEv">>),
        Direct("Push", <<"OEv">>), Invalid>>),
    \* 0x100
    Group(<<PredMOD(Direct("Sldt", <<"OMw">>), Direct("Sldt", <<"ORv">>)), PredMOD(Direct("Str",
        <<"OMw">>), Direct("Str", <<"ORv">>)), Direct("Lldt", <<"OEw">>), Direct("Ltr",
        <<"OEw">>), Direct("Verr", <<"OEw">>), Direct("Verw", <<"OEw">>), Invalid, Invalid>>),
    PredMOD(Group(<<Direct("Sgdt", <<"OMs">>), Direct("Sidt", <<"OMs">>), Direct("Lgdt",
        <<"OMs">>), Direct("Lidt", <<"OMs">>), Direct("Smsw", <<"OMw">>), Invalid, Direct("Lmsw",
        <<"OMw">>), Direct("Invlpg", <<"OMb">>)>>), Group(<<RMGroup(<<Invalid, Direct("Vmcall",
        <<>>), Direct("Vmlaunch", <<>>), Direct("Vmresume", <<>>), Direct("Vmxoff", <<>>),
        Invalid, Invalid, Invalid>>), RMGroup(<<Direct("Monitor", <<>>), Direct("Mwait", <<>>),
        Invalid, Invalid, Invalid, Invalid, Invalid, Invalid>>), Invalid, Invalid, Direct("Smsw",
        <<"ORv">>), Invalid, Direct("Lmsw", <<"ORw">>), Invalid>>)),
    Direct("Lar", <<"OGv", "OEw">>),
    Direct("Lsl", <<"OGv", "OEw">>),
    Invalid,
    Direct("Syscall", <<>>),
    Direct("Clts", <<>>),
    Direct("Sysret", <<>>),
    Direct("Invd", <<>>),
    Direct("Wbinvd", <<>>),
    Invalid,
    Direct("Ud2", <<>>),
    Invalid,
    Direct("Nop", <<"OEv">>),
    Invalid,
    Invalid,
    \* 0x110
    SSE(Direct("Movups", <<"OVps", "OWps">>), Direct("Movss", <<"OVss", "OWss">>),
        Direct("Movupd", <<"OVpd", "OWpd">>), Direct("Movsd", <<"OVsd", "OWsd">>)),
    SSE(Direct("Movups", <<"OWps", "OVps">>), Direct("Movss", <<"OWss", "OVss">>),
        Direct("Movupd", <<"OWpd", "OVpd">>), Direct("Movsd", <<"OWsd", "OVsd">>)),
    SSE(PredMOD(Direct("Movlps", <<"OVq", "OMq">>), Direct("Movhlps", <<"OVq", "OUq">>)),
        Direct("Movsldup", <<"OVq", "OWq">>), Direct("Movlpd", <<"OVq", "OMq">>),
        Direct("Movddup", <<"OVq", "OWq">>)),
    SSENo66(Direct("Movlps", <<"OMq", "OVq">>), Direct("Movlpd", <<"OMq", "OVq">>)),
    SSENo66(Direct("Unpcklpd", <<"OVpd", "OWq">>), Direct("Unpcklps", <<"OVps", "OWq">>)),
    SSENo66(Direct("Unpckhpd", <<"OVpd", "OWq">>), Direct("Unpckhps", <<"OVps", "OWq">>)),
    SSE(PredMOD(Direct("Movhps", <<"OVq", "OMq">>), Direct("Movlhps", <<"OVq", "OUq">>)),
        Direct("Movshdup", <<"OVq", "OWq">>), Direct("Movhpd", <<"OVq", "OMq">>), Invalid),
    SSENo66(Direct("Movhps", <<"OMq", "OVq">>), Direct("Movhpd", <<"OMq", "OVq">>)),
    PredMOD(Group(<<Direct("Prefetchnta", <<"OMb">>), Direct("Prefetcht0", <<"OMb">>),
        Direct("Prefetcht1", <<"OMb">>), Direct("Prefetcht2", <<"OMb">>), Invalid, Invalid,
        Invalid, Invalid>>), Invalid),
    Invalid,
    Invalid,
    Invalid,
    Invalid,
    Invalid,
    Invalid,
    Direct("Nop", <<"OEv">>),
    \* 0x120
    Direct("Mov", <<"ORd", "OCd">>),
    Direct("Mov", <<"ORd", "ODd">>),
    Direct("Mov", <<"OCd", "ORd">>),
    Direct("Mov", <<"ODd", "ORd">>),
    Invalid,
    Invalid,
    Invalid,
    Invalid,
    SSENo66(Direct("Movaps", <<"OVpd", "OWpd">>), Direct("Movapd", <<"OVps", "OWps">>)),
    SSENo66(Direct("Movaps", <<"OWpd", "OVpd">>), Direct("Movapd", <<"OWps", "OVps">>)),
    SSE(Direct("Cvtpi2ps", <<"OVps", "OQpi">>), Direct("Cvtsi2ss", <<"OVss", "OEd_q">>),
        Direct("Cvtpi2pd", <<"OVpd", "OQpi">>), Direct("Cvtsi2sd", <<"OVsd", "OEd_q">>)),
    SSENo66(Direct("Movntps", <<"OMpd", "OVpd">>), Direct("Movntpd", <<"OMps", "OVps">>)),
    SSE(Direct("Cvttps2pi", <<"OPpi", "OWps">>), Direct("Cvttss2si", <<"OGd", "OWss">>),
        Direct("Cvttpd2pi", <<"OPpi", "OWpd">>), Direct("Cvttsd2si", <<"OGd", "OWsd">>)),
    SSE(Direct("Cvtps2pi", <<"OPpi", "OWps">>), Direct("Cvtss2si", <<"OGd_q", "OWss">>),
        Direct("Cvtpd2pi", <<"OPpi", "OWpd">>), Direct("Cvtsd2si", <<"OGd_q", "OWsd">>)),
    SSENo66(Direct("Ucomiss", <<"OVsd", "OWsd">>), Direct("Ucomisd", <<"OVss", "OWss">>)),
    SSENo66(Direct("Comiss", <<"OVsd", "OWsd">>), Direct("Comisd", <<"OVss", "OWss">>)),
    \* 0x130
    Direct("Wrmsr", <<>>),
    Direct("Rdtsc", <<>>),
    Direct("Rdmsr", <<>>),
    Direct("Rdpmc", <<>>),
    Direct("Sysenter", <<>>),
    Direct("Sysexit", <<>>),
    Invalid,
    Direct("Getsec", <<>>),
    Fatal,
    Invalid,
    Fatal,
    Invalid,
    Invalid,
    Invalid,
    Invalid,
    Invalid,
    \* 0x140
    Direct("Cmovo", <<"OGv", "OEv">>),
    Direct("Cmovno", <<"OGv", "OEv">>),
    Direct("Cmovb", <<"OGv", "OEv">>),
    Direct("Cmovae", <<"OGv", "OEv">>),
    Direct("Cmovz", <<"OGv", "OEv">>),
    Direct("Cmovnz", <<"OGv", "OEv">>),
    Direct("Cmovbe", <<"OGv", "OEv">>),
    Direct("Cmova", <<"OGv", "OEv">>),
    Direct("Cmovs", <<"OGv", "OEv">>),
    Direct("Cmovns", <<"OGv", "OEv">>),
    Direct("Cmovp", <<"OGv", "OEv">>),
    Direct("Cmovnp", <<"OGv", "OEv">>),
    Direct("Cmovl", <<"OGv", "OEv">>),
    Direct("Cmovge", <<"OGv", "OEv">>),
    Direct("Cmovle", <<"OGv", "OEv">>),
    Direct("Cmovg", <<"OGv", "OEv">>),
    \* 0x150
    SSENo66(Direct("Movmskps", <<"OGd", "OUps">>), Direct("Movmskpd", <<"OGd", "OUpd">>)),
    SSE(Direct("Sqrtps", <<"OVps", "OWps">>), Direct("Sqrtss", <<"OVss", "OWss">>),
        Direct("Sqrtpd", <<"OVpd", "OWpd">>), Direct("Sqrtsd", <<"OVsd", "OWsd">>)),
    SSE(Direct("Rsqrtps", <<"OVps", "OWps">>), Direct("Rsqrtss", <<"OVss", "OWss">>), Invalid,
        Invalid),
    SSE(Direct("Rcpps", <<"OVps", "OWps">>), Direct("Rcpss", <<"OVss", "OWss">>), Invalid,
        Invalid),
    SSENo66(Direct("Andps", <<"OVps", "OWps">>), Direct("Andpd", <<"OVpd", "OWpd">>)),
    SSENo66(Direct("Andnps", <<"OVps", "OWps">>), Direct("Andnpd", <<"OVpd", "OWpd">>)),
    SSENo66(Direct("Orps", <<"OVps", "OWps">>), Direct("Orpd", <<"OVpd", "OWpd">>)),
    SSENo66(Direct("Xorps", <<"OVps", "OWps">>), Direct("Xorpd", <<"OVpd", "OWpd">>)),
    SSE(Direct("Addps", <<"OVps", "OWps">>), Direct("Addss", <<"OVss", "OWss">>), Direct("Addpd",
        <<"OVpd", "OWpd">>), Direct("Addsd", <<"OVsd", "OWsd">>)),
    SSE(Direct("Mulps", <<"OVps", "OWps">>), Direct("Mulss", <<"OVss", "OWss">>), Direct("Mulpd",
        <<"OVpd", "OWpd">>), Direct("Mulsd", <<"OVsd", "OWsd">>)),
    SSE(Direct("Cvtps2pd", <<"OVpd", "OWps">>), Direct("Cvtss2sd", <<"OVss", "OWss">>),
        Direct("Cvtpd2ps", <<"OVps", "OWpd">>), Direct("Cvtsd2ss", <<"OVsd", "OWsd">>)),
    SSE(Direct("Cvtdq2ps", <<"OVps", "OWps">>), Direct("Cvttps2dq", <<"OVdq", "OWps">>),
        Direct("Cvtps2dq", <<"OVdq", "OWps">>), Invalid),
    SSE(Direct("Subps", <<"OVps", "OWps">>), Direct("Subss", <<"OVss", "OWss">>), Direct("Subpd",
        <<"OVpd", "OWpd">>), Direct("Subsd", <<"OVsd", "OWsd">>)),
    SSE(Direct("Minps", <<"OVps", "OWps">>), Direct("Minss", <<"OVss", "OWss">>), Direct("Minpd",
        <<"OVpd", "OWpd">>), Direct("Minsd", <<"OVsd", "OWsd">>)),
    SSE(Direct("Divps", <<"OVps", "OWps">>), Direct("Divss", <<"OVss", "OWss">>), Direct("Divpd",
        <<"OVpd", "OWpd">>), Direct("Divsd", <<"OVsd", "OWsd">>)),
    SSE(Direct("Maxps", <<"OVps", "OWps">>), Direct("Maxss", <<"OVss", "OWss">>), Direct("Maxpd",
        <<"OVpd", "OWpd">>), Direct("Maxsd", <<"OVsd", "OWsd">>)),
    \* 0x160
    SSENo66(Direct("Punpcklbw", <<"OPq", "OQd">>), Direct("Punpcklbw", <<"OVdq", "OWdq">>)),
    SSENo66(Direct("Punpcklwd", <<"OPq", "OQd">>), Direct("Punpcklwd", <<"OVdq", "OWdq">>)),
    SSENo66(Direct("Punpckldq", <<"OPq", "OQd">>), Direct("Punpckldq", <<"OVdq", "OWdq">>)),
    SSENo66(Direct("Packsswb", <<"OPq", "OQd">>), Direct("Packsswb", <<"OVdq", "OWdq">>)),
    SSENo66(Direct("Pcmpgtb", <<"OPq", "OQd">>), Direct("Pcmpgtb", <<"OVdq", "OWdq">>)),
    SSENo66(Direct("Pcmpgtw", <<"OPq", "OQd">>), Direct("Pcmpgtw", <<"OVdq", "OWdq">>)),
    SSENo66(Direct("Pcmpgtd", <<"OPq", "OQd">>), Direct("Pcmpgtd", <<"OVdq", "OWdq">>)),
    SSENo66(Direct("Packuswb", <<"OPq", "OQd">>), Direct("Packuswb", <<"OVdq", "OWdq">>)),
    SSENo66(Direct("Punpckhbw", <<"OPq", "OQd">>), Direct("Punpckhbw", <<"OVdq", "OWdq">>)),
    SSENo66(Direct("Punpckhwd", <<"OPq", "OQd">>), Direct("Punpckhwd", <<"OVdq", "OWdq">>)),
    SSENo66(Direct("Punpckhdq", <<"OPq", "OQd">>), Direct("Punpckhdq", <<"OVdq", "OWdq">>)),
    SSENo66(Direct("Packssdw", <<"OPq", "OQd">>), Direct("Packssdw", <<"OVdq", "OWdq">>)),
    SSE66(Direct("Punpcklqdq", <<"OVdq", "OWdq">>)),
    SSE66(Direct("Punpckhqdq", <<"OVdq", "OWdq">>)),
    SSENo66(Direct("Movd", <<"OPd", "OEd_q">>), Direct("Movd", <<"OVdq", "OEd_q">>)),
    SSE(Direct("Movq", <<"OPq", "OQq">>), Direct("Movdqu", <<"OVdq", "OWdq">>), Direct("Movdqa",
        <<"OVdq", "OWdq">>), Invalid),
    \* 0x170
    SSE(Direct("Pshufw", <<"OPq", "OQq", "OIb">>), Direct("Pshufhw", <<"OVdq", "OWdq", "OIb">>),
        Direct("Pshufd", <<"OVdq", "OWdq", "OIb">>), Direct("Pshuflw", <<"OVdq", "OWdq",
        "OIb">>)),
    PredMOD(Invalid, Group(<<Invalid, Invalid, SSENo66(Direct("Psrlw", <<"ONq", "OIb">>),
        Direct("Psrlw", <<"OUdq", "OIb">>)), Invalid, SSENo66(Direct("Psraw", <<"ONq", "OIb">>),
        Direct("Psraw", <<"OUdq", "OIb">>)), Invalid, SSENo66(Direct("Psllw", <<"ONq", "OIb">>),
        Direct("Psllw", <<"OUdq", "OIb">>)), Invalid>>)),
    PredMOD(Invalid, Group(<<Invalid, Invalid, SSENo66(Direct("Psrld", <<"ONq", "OIb">>),
        Direct("Psrld", <<"OUdq", "OIb">>)), Invalid, SSENo66(Direct("Psrad", <<"ONq", "OIb">>),
        Direct("Psrad", <<"OUdq", "OIb">>)), Invalid, SSENo66(Direct("Pslld", <<"ONq", "OIb">>),
        Direct("Pslld", <<"OUdq", "OIb">>)), Invalid>>)),
    PredMOD(Invalid, Group(<<Invalid, Invalid, SSENo66(Direct("Psrlq", <<"ONq", "OIb">>),
        Direct("Psrlq", <<"OUdq", "OIb">>)), SSE66(Direct("Psrldq", <<"OUdq", "OIb">>)), Invalid,
        Invalid, SSENo66(Direct("Psllq", <<"ONq", "OIb">>), Direct("Psllq", <<"OUdq", "OIb">>)),
        SSE66(Direct("Pslldq", <<"OUdq", "OIb">>))>>)),
    SSENo66(Direct("Pcmpeqb", <<"OPq", "OQq">>), Direct("Pcmpeqb", <<"OVdq", "OWdq">>)),
    SSENo66(Direct("Pcmpeqw", <<"OPq", "OQq">>), Direct("Pcmpeqw", <<"OVdq", "OWdq">>)),
    SSENo66(Direct("Pcmpeqd", <<"OPq", "OQq">>), Direct("Pcmpeqd", <<"OVdq", "OWdq">>)),
    Direct("Emms", <<>>),
    Direct("Vmread", <<"OEd", "OGd">>),
    Direct("Vmwrite", <<"OEd", "OGd">>),
    Invalid,
    Invalid,
    SSE(Invalid, Invalid, Direct("Haddpd", <<"OVpd", "OWpd">>), Direct("Haddps", <<"OVps",
        "OWps">>)),
    SSE(Invalid, Invalid, Direct("Hsubpd", <<"OVpd", "OWpd">>), Direct("Hsubps", <<"OVps",
        "OWps">>)),
    SSE(Direct("Movd", <<"OEd_q", "OPd">>), Direct("Movq", <<"OVq", "OWq">>), Direct("Movd",
        <<"OEd_q", "OVdq">>), Invalid),
    SSE(Direct("Movq", <<"OQq", "OPq">>), Direct("Movdqu", <<"OWdq", "OVdq">>), Direct("Movdqa",
        <<"OWdq", "OVdq">>), Invalid),
    \* 0x180
    Direct("Jo", <<"OJz">>),
    Direct("Jno", <<"OJz">>),
    Direct("Jb", <<"OJz">>),
    Direct("Jae", <<"OJz">>),
    Direct("Jz", <<"OJz">>),
    Direct("Jnz", <<"OJz">>),
    Direct("Jbe", <<"OJz">>),
    Direct("Ja", <<"OJz">>),
    Direct("Js", <<"OJz">>),
    Direct("Jns", <<"OJz">>),
    Direct("Jp", <<"OJz">>),
    Direct("Jnp", <<"OJz">>),
    Direct("Jl", <<"OJz">>),
    Direct("Jge", <<"OJz">>),
    Direct("Jle", <<"OJz">>),
    Direct("Jg", <<"OJz">>),
    \* 0x190
    Direct("Seto", <<"OEb">>),
    Direct("Setno", <<"OEb">>),
    Direct("Setb", <<"OEb">>),
    Direct("Setae", <<"OEb">>),
    Direct("Setz", <<"OEb">>),
    Direct("Setnz", <<"OEb">>),
    Direct("Setbe", <<"OEb">>),
    Direct("Seta", <<"OEb">>),
    Direct("Sets", <<"OEb">>),
    Direct("Setns", <<"OEb">>),
    Direct("Setp", <<"OEb">>),
    Direct("Setnp", <<"OEb">>),
    Direct("Setl", <<"OEb">>),
    Direct("Setge", <<"OEb">>),
    Direct("Setle", <<"OEb">>),
    Direct("Setg", <<"OEb">>),
    \* 0x1A0
    Direct("Push", <<"OFS">>),
    Direct("Pop", <<"OFS">>),
    Direct("Cpuid", <<>>),
    Direct("Bt", <<"OEv", "OGv">>),
    Direct("Shld", <<"OEv", "OGv", "OIb">>),
    Direct("Shld", <<"OEv", "OGv", "OCL">>),
    Invalid,
    Invalid,
    Direct("Push", <<"OGS">>),
    Direct("Pop", <<"OGS">>),
    Direct("Rsm", <<>>),
    Direct("Bts", <<"OEv", "OGv">>),
    Direct("Shrd", <<"OEv", "OGv", "OIb">>),
    Direct("Shrd", <<"OEv", "OGv", "OCL">>),
    PredMOD(Group(<<Direct("Fxsave", <<"OSimdState">>), Direct("Fxrstor", <<"OSimdState">>),
        Direct("Ldmxcsr", <<"OMd">>), Direct("Stmxcsr", <<"OMd">>), Invalid, Invalid, Invalid,
        Direct("Clflush", <<"OMb">>)>>), Group(<<Invalid, Invalid, Invalid, Invalid, Invalid,
        Direct("Lfence", <<>>), Direct("Mfence", <<>>), Direct("Sfence", <<>>)>>)),
    Direct("Imul", <<"OGv", "OEv">>),
    \* 0x1B0
    Direct("Cmpxchg", <<"OEb", "OGb">>),
    Direct("Cmpxchg", <<"OEv", "OGv">>),
    Direct("Lss", <<"OGv", "OMp">>),
    Direct("Btr", <<"OEv", "OGv">>),
    Direct("Lfs", <<"OGv", "OMp">>),
    Direct("Lgs", <<"OGv", "OMp">>),
    Direct("Movzx", <<"OGv", "OEb">>),
    Direct("Movzx", <<"OGv", "OEw">>),
    SSE(Invalid, Direct("Popcnt", <<"OGv", "OEv">>), Invalid, Invalid),
    Invalid,
    Group(<<Invalid, Invalid, Invalid, Invalid, Direct("Bt", <<"OEv", "OIb">>), Direct("Bts",
        <<"OEv", "OIb">>), Direct("Btr", <<"OEv", "OIb">>), Direct("Btc", <<"OEv", "OIb">>)>>),
    Direct("Btc", <<"OEv", "OGv">>),
    Direct("Bsf", <<"OGv", "OEv">>),
    Direct("Bsr", <<"OGv", "OEv">>),
    Direct("Movsx", <<"OGv", "OEb">>),
    Direct("Movsx", <<"OGv", "OEw">>),
    \* 0x1C0
    Direct("Xadd", <<"OEb", "OGb">>),
    Direct("Xadd", <<"OEv", "OGv">>),
    SSE(Direct("Cmpps", <<"OVps", "OWps", "OIb">>), Direct("Cmpss", <<"OVss", "OWss", "OIb">>),
        Direct("Cmppd", <<"OVpd", "OWpd", "OIb">>), Direct("Cmpsd", <<"OVsd", "OWsd", "OIb">>)),
    SSENo(Direct("Movnti", <<"OMd_q", "OGd_q">>)),
    SSENo66(Direct("Pinsrw", <<"OPq", "OEw", "OIb">>), Direct("Pinsrw", <<"OVdq", "OEw",
        "OIb">>)),
    SSENo66(Direct("Pextrw", <<"OGd", "ONq", "OIb">>), Direct("Pextrw", <<"OGd", "OUdq",
        "OIb">>)),
    SSENo66(Direct("Shufps", <<"OVps", "OWps", "OIb">>), Direct("Shufpd", <<"OVps", "OWps",
        "OIb">>)),
    PredMOD(Group(<<Invalid, Direct("Cmpxchg8b", <<"OMq">>), Invalid, Invalid, Invalid, Invalid,
        SSE(Direct("Vmptrld", <<"OMq">>), Direct("Vmxon", <<"OMq">>), Direct("Vmclear",
        <<"OMq">>), Invalid), SSENo(Direct("Vmptrst", <<"OMq">>))>>), Invalid),
    Direct("Bswap", <<"OeAX">>),
    Direct("Bswap", <<"OeCX">>),
    Direct("Bswap", <<"OeDX">>),
    Direct("Bswap", <<"OeBX">>),
    Direct("Bswap", <<"OeSP">>),
    Direct("Bswap", <<"OeBP">>),
    Direct("Bswap", <<"OeSI">>),
    Direct("Bswap", <<"OeDI">>),
    \* 0x1D0
    SSE(Invalid, Invalid, Direct("Addsubpd", <<"OVpd", "OWpd">>), Direct("Addsubps", <<"OVps",
        "OWps">>)),
    SSENo66(Direct("Psrlw", <<"OPq", "OQq">>), Direct("Psrlw", <<"OVdq", "OWdq">>)),
    SSENo66(Direct("Psrld", <<"OPq", "OQq">>), Direct("Psrld", <<"OVdq", "OWdq">>)),
    SSENo66(Direct("Psrlq", <<"OPq", "OQq">>), Direct("Psrlq", <<"OVdq", "OWdq">>)),
    SSENo66(Direct("Paddq", <<"OPq", "OQq">>), Direct("Paddq", <<"OVdq", "OWdq">>)),
    SSENo66(Direct("Pmullw", <<"OPq", "OQq">>), Direct("Pmullw", <<"OVdq", "OWdq">>)),
    SSE(Invalid, Direct("Movq2dq", <<"OVdq", "ONq">>), Direct("Movq", <<"OVdq", "OWdq">>),
        Direct("Movdq2q", <<"OPq", "OUq">>)),
    SSENo66(Direct("Pmovmskb", <<"OGd", "ONq">>), Direct("Pmovmskb", <<"OGd", "OUdq">>)),
    SSENo66(Direct("Psubusb", <<"OPq", "OQq">>), Direct("Psubusb", <<"OVdq", "OWdq">>)),
    SSENo66(Direct("Psubusw", <<"OPq", "OQq">>), Direct("Psubusw", <<"OVdq", "OWdq">>)),
    SSENo66(Direct("Pminub", <<"OPq", "OQq">>), Direct("Pminub", <<"OVdq", "OWdq">>)),
    SSENo66(Direct("Pand", <<"OPq", "OQq">>), Direct("Pand", <<"OVdq", "OWdq">>)),
    SSENo66(Direct("Paddusb", <<"OPq", "OQq">>), Direct("Paddusb", <<"OVdq", "OWdq">>)),
    SSENo66(Direct("Paddusw", <<"OPq", "OQq">>), Direct("Paddusw", <<"OVdq", "OWdq">>)),
    SSENo66(Direct("Pmaxub", <<"OPq", "OQq">>), Direct("Pmaxub", <<"OVdq", "OWdq">>)),
    SSENo66(Direct("Pandn", <<"OPq", "OQq">>), Direct("Pandn", <<"OVdq", "OWdq">>)),
    \* 0x1E0
    SSENo66(Direct("Pavgb", <<"OPq", "OQq">>), Direct("Pavgb", <<"OVdq", "OWdq">>)),
    SSENo66(Direct("Psraw", <<"OPq", "OQq">>), Direct("Psraw", <<"OVdq", "OWdq">>)),
    SSENo66(Direct("Psrad", <<"OPq", "OQq">>), Direct("Psrad", <<"OVdq", "OWdq">>)),
    SSENo66(Direct("Pavgw", <<"OPq", "OQq">>), Direct("Pavgw", <<"OVdq", "OWdq">>)),
    SSENo66(Direct("Pmulhuw", <<"OPq", "OQq">>), Direct("Pmulhuw", <<"OVdq", "OWdq">>)),
    SSENo66(Direct("Pmulhw", <<"OPq", "OQq">>), Direct("Pmulhw", <<"OVdq", "OWdq">>)),
    SSE(Invalid, Direct("Cvtdq2pd", <<"OVpd", "OWdq">>), Direct("Cvttpd2dq", <<"OVdq", "OWpd">>),
        Direct("Cvtpd2dq", <<"OVdq", "OWpd">>)),
    SSENo66(Direct("Movntq", <<"OMq", "OPq">>), Direct("Movntdq", <<"OMdq", "OVdq">>)),
    SSENo66(Direct("Psubsb", <<"OPq", "OQq">>), Direct("Psubsb", <<"OVdq", "OWdq">>)),
    SSENo66(Direct("Psubsw", <<"OPq", "OQq">>), Direct("Psubsw", <<"OVdq", "OWdq">>)),
    SSENo66(Direct("Pminsw", <<"OPq", "OQq">>), Direct("Pminsw", <<"OVdq", "OWdq">>)),
    SSENo66(Direct("Por", <<"OPq", "OQq">>), Direct("Por", <<"OVdq", "OWdq">>)),
    SSENo66(Direct("Paddsb", <<"OPq", "OQq">>), Direct("Paddsb", <<"OVdq", "OWdq">>)),
    SSENo66(Direct("Paddsw", <<"OPq", "OQq">>), Direct("Paddsw", <<"OVdq", "OWdq">>)),
    SSENo66(Direct("Pmaxsw", <<"OPq", "OQq">>), Direct("Pmaxsw", <<"OVdq", "OWdq">>)),
    SSENo66(Direct("Pxor", <<"OPq", "OQq">>), Direct("Pxor", <<"OVdq", "OWdq">>)),
    \* 0x1F0
    SSE(Invalid, Invalid, Invalid, Direct("Lddqu", <<"OVdq", "OMdq">>)),
    SSENo66(Direct("Psllw", <<"OPq", "OQq">>), Direct("Psllw", <<"OVdq", "OWdq">>)),
    SSENo66(Direct("Pslld", <<"OPq", "OQq">>), Direct("Pslld", <<"OVdq", "OWdq">>)),
    SSENo66(Direct("Psllq", <<"OPq", "OQq">>), Direct("Psllq", <<"OVdq", "OWdq">>)),
    SSENo66(Direct("Pmuludq", <<"OPq", "OQq">>), Direct("Pmuludq", <<"OVdq", "OWdq">>)),
    SSENo66(Direct("Pmaddwd", <<"OPq", "OQq">>), Direct("Pmaddwd", <<"OVdq", "OWdq">>)),
    SSENo66(Direct("Psadbw", <<"OPq", "OQq">>), Direct("Psadbw", <<"OVdq", "OWdq">>)),
    SSENo66(Direct("Maskmovq", <<"OPq", "ONq">>), Direct("Maskmovdqu", <<"OVdq", "OUdq">>)),
    SSENo66(Direct("Psubb", <<"OPq", "OQq">>), Direct("Psubb", <<"OVdq", "OWdq">>)),
    SSENo66(Direct("Psubw", <<"OPq", "OQq">>), Direct("Psubw", <<"OVdq", "OWdq">>)),
    SSENo66(Direct("Psubd", <<"OPq", "OQq">>), Direct("Psubd", <<"OVdq", "OWdq">>)),
    SSENo66(Direct("Psubq", <<"OPq", "OQq">>), Direct("Psubq", <<"OVdq", "OWdq">>)),
    SSENo66(Direct("Paddb", <<"OPq", "OQq">>), Direct("Paddb", <<"OVdq", "OWdq">>)),
    SSENo66(Direct("Paddw", <<"OPq", "OQq">>), Direct("Paddw", <<"OVdq", "OWdq">>)),
    SSENo66(Direct("Paddd", <<"OPq", "OQq">>), Direct("Paddd", <<"OVdq", "OWdq">>)),
    Invalid,
    \* 0x200
    SSENo66(Direct("Pshufb", <<"OPq", "OQq">>), Direct("Pshufb", <<"OVdq", "OWdq">>)),
    SSENo66(Direct("Phaddw", <<"OPq", "OQq">>), Direct("Phaddw", <<"OVdq", "OWdq">>)),
    SSENo66(Direct("Phaddd", <<"OPq", "OQq">>), Direct("Phaddd", <<"OVdq", "OWdq">>)),
    SSENo66(Direct("Phaddsw", <<"OPq", "OQq">>), Direct("Phaddsw", <<"OVdq", "OWdq">>)),
    SSENo66(Direct("Pmaddubsw", <<"OPq", "OQq">>), Direct("Pmaddubsw", <<"OVdq", "OWdq">>)),
    SSENo66(Direct("Phsubw", <<"OPq", "OQq">>), Direct("Phsubw", <<"OVdq", "OWdq">>)),
    SSENo66(Direct("Phsubd", <<"OPq", "OQq">>), Direct("Phsubd", <<"OVdq", "OWdq">>)),
    SSENo66(Direct("Phsubsw", <<"OPq", "OQq">>), Direct("Phsubsw", <<"OVdq", "OWdq">>)),
    SSENo66(Direct("Psignb", <<"OPq", "OQq">>), Direct("Psignb", <<"OVdq", "OWdq">>)),
    SSENo66(Direct("Psignw", <<"OPq", "OQq">>), Direct("Psignw", <<"OVdq", "OWdq">>)),
    SSENo66(Direct("Psignd", <<"OPq", "OQq">>), Direct("Psignd", <<"OVdq", "OWdq">>)),
    SSENo66(Direct("Pmulhrsw", <<"OPq", "OQq">>), Direct("Pmulhrsw", <<"OVdq", "OWdq">>)),
    Invalid,
    Invalid,
    Invalid,
    Invalid,
    \* 0x210
    SSE66(Direct("Pblendvb", <<"OVdq", "OWdq">>)),
    Invalid,
    Invalid,
    Invalid,
    SSE66(Direct("Blendvps", <<"OVdq", "OWdq">>)),
    SSE66(Direct("Blendvpd", <<"OVdq", "OWdq">>)),
    Invalid,
    SSE66(Direct("Ptest", <<"OVdq", "OWdq">>)),
    Invalid,
    Invalid,
    Invalid,
    Invalid,
    SSENo66(Direct("Pabsb", <<"OPq", "OQq">>), Direct("Pabsb", <<"OVdq", "OWdq">>)),
    SSENo66(Direct("Pabsw", <<"OPq", "OQq">>), Direct("Pabsw", <<"OVdq", "OWdq">>)),
    SSENo66(Direct("Pabsd", <<"OPq", "OQq">>), Direct("Pabsd", <<"OVdq", "OWdq">>)),
    Invalid,
    \* 0x220
    SSE66(Direct("Pmovsxbw", <<"OVdq", "OUdq_Mq">>)),
    SSE66(Direct("Pmovsxbd", <<"OVdq", "OUdq_Md">>)),
    SSE66(Direct("Pmovsxbq", <<"OVdq", "OUdq_Mw">>)),
    SSE66(Direct("Pmovsxwd", <<"OVdq", "OUdq_Mq">>)),
    SSE66(Direct("Pmovsxwq", <<"OVdq", "OUdq_Md">>)),
    SSE66(Direct("Pmovsxdq", <<"OVdq", "OUdq_Mq">>)),
    Invalid,
    Invalid,
    SSE66(Direct("Pmuldq", <<"OVdq", "OWdq">>)),
    SSE66(Direct("Pcmpeqq", <<"OVdq", "OWdq">>)),
    SSE66(Direct("Movntdqa", <<"OVdq", "OMdq">>)),
    SSE66(Direct("Packusdw", <<"OVdq", "OWdq">>)),
    Invalid,
    Invalid,
    Invalid,
    Invalid,
    \* 0x230
    SSE66(Direct("Pmovzxbw", <<"OVdq", "OUdq_Mq">>)),
    SSE66(Direct("Pmovzxbd", <<"OVdq", "OUdq_Md">>)),
    SSE66(Direct("Pmovzxbq", <<"OVdq", "OUdq_Mw">>)),
    SSE66(Direct("Pmovzxwd", <<"OVdq", "OUdq_Mq">>)),
    SSE66(Direct("Pmovzxwq", <<"OVdq", "OUdq_Md">>)),
    SSE66(Direct("Pmovzxdq", <<"OVdq", "OUdq_Mq">>)),
    Invalid,
    SSE66(Direct("Pcmpgtq", <<"OVdq", "OWdq">>)),
    SSE66(Direct("Pminsb", <<"OVdq", "OWdq">>)),
    SSE66(Direct("Pminsd", <<"OVdq", "OWdq">>)),
    SSE66(Direct("Pminuw", <<"OVdq", "OWdq">>)),
    SSE66(Direct("Pminud", <<"OVdq", "OWdq">>)),
    SSE66(Direct("Pmaxsb", <<"OVdq", "OWdq">>)),
    SSE66(Direct("Pmaxsd", <<"OVdq", "OWdq">>)),
    SSE66(Direct("Pmaxuw", <<"OVdq", "OWdq">>)),
    SSE66(Direct("Pmaxud", <<"OVdq", "OWdq">>)),
    \* 0x240
    SSE66(Direct("Pmulld", <<"OVdq", "OWdq">>)),
    SSE66(Direct("Phminposuw", <<"OVdq", "OWdq">>)),
    Invalid,
    Invalid,
    Invalid,
    Invalid,
    Invalid,
    Invalid,
    Invalid,
    Invalid,
    Invalid,
    Invalid,
    Invalid,
    Invalid,
    Invalid,
    Invalid,
    \* 0x250
    Invalid,
    Invalid,
    Invalid,
    Invalid,
    Invalid,
    Invalid,
    Invalid,
    Invalid,
    Invalid,
    Invalid,
    Invalid,
    Invalid,
    Invalid,
    Invalid,
    Invalid,
    Invalid,
    \* 0x260
    Invalid,
    Invalid,
    Invalid,
    Invalid,
    Invalid,
    Invalid,
    Invalid,
    Invalid,
    Invalid,
    Invalid,
    Invalid,
    Invalid,
    Invalid,
    Invalid,
    Invalid,
    Invalid,
    \* 0x270
    Invalid,
    Invalid,
    Invalid,
    Invalid,
    Invalid,
    Invalid,
    Invalid,
    Invalid,
    Invalid,
    Invalid,
    Invalid,
    Invalid,
    Invalid,
    Invalid,
    Invalid,
    Invalid,
    \* 0x280
    Invalid,
    Invalid,
    Invalid,
    Invalid,
    Invalid,
    Invalid,
    Invalid,
    Invalid,
    Invalid,
    Invalid,
    Invalid,
    Invalid,
    Invalid,
    Invalid,
    Invalid,
    Invalid,
    \* 0x290
    Invalid,
    Invalid,
    Invalid,
    Invalid,
    Invalid,
    Invalid,
    Invalid,
    Invalid,
    Invalid,
    Invalid,
    Invalid,
    Invalid,
    Invalid,
    Invalid,
    Invalid,
    Invalid,
    \* 0x2A0
    Invalid,
    Invalid,
    Invalid,
    Invalid,
    Invalid,
    Invalid,
    Invalid,
    Invalid,
    Invalid,
    Invalid,
    Invalid,
    Invalid,
    Invalid,
    Invalid,
    Invalid,
    Invalid,
    \* 0x2B0
    Invalid,
    Invalid,
    Invalid,
    Invalid,
    Invalid,
    Invalid,
    Invalid,
    Invalid,
    Invalid,
    Invalid,
    Invalid,
    Invalid,
    Invalid,
    Invalid,
    Invalid,
    Invalid,
    \* 0x2C0
    Invalid,
    Invalid,
    Invalid,
    Invalid,
    Invalid,
    Invalid,
    Invalid,
    Invalid,
    Invalid,
    Invalid,
    Invalid,
    Invalid,
    Invalid,
    Invalid,
    Invalid,
    Invalid,
    \* 0x2D0
    Invalid,
    Invalid,
    Invalid,
    Invalid,
    Invalid,
    Invalid,
    Invalid,
    Invalid,
    Invalid,
    Invalid,
    Invalid,
    Invalid,
    Invalid,
    Invalid,
    Invalid,
    Invalid,
    \* 0x2E0
    Invalid,
    Invalid,
    Invalid,
    Invalid,
    Invalid,
    Invalid,
    Invalid,
    Invalid,
    Invalid,
    Invalid,
    Invalid,
    Invalid,
    Invalid,
    Invalid,
    Invalid,
    Invalid,
    \* 0x2F0
    Direct("Crc32", <<"OGd", "OEb">>),
    Direct("Crc32", <<"OGd", "OEv">>),
    Invalid,
    Invalid,
    Invalid,
    Invalid,
    Invalid,
    Invalid,
    Invalid,
    Invalid,
    Invalid,
    Invalid,
    Invalid,
    Invalid,
    Invalid,
    Invalid,
    \* 0x300
    Invalid,
    Invalid,
    Invalid,
    Invalid,
    Invalid,
    Invalid,
    Invalid,
    Invalid,
    SSE66(Direct("Roundps", <<"OVdq", "OWdq", "OIb">>)),
    SSE66(Direct("Roundpd", <<"OVdq", "OWdq", "OIb">>)),
    SSE66(Direct("Roundss", <<"OVss", "OWss", "OIb">>)),
    SSE66(Direct("Roundsd", <<"OVsd", "OWsd", "OIb">>)),
    SSE66(Direct("Blendps", <<"OVdq", "OWdq", "OIb">>)),
    SSE66(Direct("Blendpd", <<"OVdq", "OWdq", "OIb">>)),
    SSE66(Direct("Pblendw", <<"OVdq", "OWdq", "OIb">>)),
    SSENo66(Direct("Palignr", <<"OPq", "OQq", "OIb">>), Direct("Palignr", <<"OVdq", "OWdq",
        "OIb">>)),
    \* 0x310
    Invalid,
    Invalid,
    Invalid,
    Invalid,
    SSE66(Direct("Pextrb", <<"ORd_Mb", "OVdq", "OIb">>)),
    SSE66(Direct("Pextrw", <<"ORd_Mw", "OVdq", "OIb">>)),
    SSE66(Direct("Pextrd", <<"OEd", "OVdq", "OIb">>)),
    SSE66(Direct("Extractps", <<"OEd", "OVdq", "OIb">>)),
    Invalid,
    Invalid,
    Invalid,
    Invalid,
    Invalid,
    Invalid,
    Invalid,
    Invalid,
    \* 0x320
    SSE66(Direct("Pinsrb", <<"OVdq", "OEd", "OIb">>)),
    SSE66(Direct("Insertps", <<"OVdq", "OUdq_Md", "OIb">>)),
    SSE66(Direct("Pinsrd", <<"OVdq", "OEd", "OIb">>)),
    Invalid,
    Invalid,
    Invalid,
    Invalid,
    Invalid,
    Invalid,
    Invalid,
    Invalid,
    Invalid,
    Invalid,
    Invalid,
    Invalid,
    Invalid,
    \* 0x330
    Invalid,
    Invalid,
    Invalid,
    Invalid,
    Invalid,
    Invalid,
    Invalid,
    Invalid,
    Invalid,
    Invalid,
    Invalid,
    Invalid,
    Invalid,
    Invalid,
    Invalid,
    Invalid,
    \* 0x340
    SSE66(Direct("Dpps", <<"OVdq", "OWdq", "OIb">>)),
    SSE66(Direct("Dppd", <<"OVdq", "OWdq", "OIb">>)),
    SSE66(Direct("Mpsadbw", <<"OVdq", "OWdq", "OIb">>)),
    Invalid,
    Invalid,
    Invalid,
    Invalid,
    Invalid,
    Invalid,
    Invalid,
    Invalid,
    Invalid,
    Invalid,
    Invalid,
    Invalid,
    Invalid,
    \* 0x350
    Invalid,
    Invalid,
    Invalid,
    Invalid,
    Invalid,
    Invalid,
    Invalid,
    Invalid,
    Invalid,
    Invalid,
    Invalid,
    Invalid,
    Invalid,
    Invalid,
    Invalid,
    Invalid,
    \* 0x360
    SSE66(Direct("Pcmpestrm", <<"OVdq", "OWdq", "OIb">>)),
    SSE66(Direct("Pcmpestri", <<"OVdq", "OWdq", "OIb">>)),
    SSE66(Direct("Pcmpistrm", <<"OVdq", "OWdq", "OIb">>)),
    SSE66(Direct("Pcmpistri", <<"OVdq", "OWdq", "OIb">>)),
    Invalid,
    Invalid,
    Invalid,
    Invalid,
    Invalid,
    Invalid,
    Invalid,
    Invalid,
    Invalid,
    Invalid,
    Invalid,
    Invalid,
    \* 0x370
    Invalid,
    Invalid,
    Invalid,
    Invalid,
    Invalid,
    Invalid,
    Invalid,
    Invalid,
    Invalid,
    Invalid,
    Invalid,
    Invalid,
    Invalid,
    Invalid,
    Invalid,
    Invalid,
    \* 0x380
    Invalid,
    Invalid,
    Invalid,
    Invalid,
    Invalid,
    Invalid,
    Invalid,
    Invalid,
    Invalid,
    Invalid,
    Invalid,
    Invalid,
    Invalid,
    Invalid,
    Invalid,
    Invalid,
    \* 0x390
    Invalid,
    Invalid,
    Invalid,
    Invalid,
    Invalid,
    Invalid,
    Invalid,
    Invalid,
    Invalid,
    Invalid,
    Invalid,
    Invalid,
    Invalid,
    Invalid,
    Invalid,
    Invalid,
    \* 0x3A0
    Invalid,
    Invalid,
    Invalid,
    Invalid,
    Invalid,
    Invalid,
    Invalid,
    Invalid,
    Invalid,
    Invalid,
    Invalid,
    Invalid,
    Invalid,
    Invalid,
    Invalid,
    Invalid,
    \* 0x3B0
    Invalid,
    Invalid,
    Invalid,
    Invalid,
    Invalid,
    Invalid,
    Invalid,
    Invalid,
    Invalid,
    Invalid,
    Invalid,
    Invalid,
    Invalid,
    Invalid,
    Invalid,
    Invalid,
    \* 0x3C0
    Invalid,
    Invalid,
    Invalid,
    Invalid,
    Invalid,
    Invalid,
    Invalid,
    Invalid,
    Invalid,
    Invalid,
    Invalid,
    Invalid,
    Invalid,
    Invalid,
    Invalid,
    Invalid,
    \* 0x3D0
    Invalid,
    Invalid,
    Invalid,
    Invalid,
    Invalid,
    Invalid,
    Invalid,
    Invalid,
    Invalid,
    Invalid,
    Invalid,
    Invalid,
    Invalid,
    Invalid,
    Invalid,
    Invalid,
    \* 0x3E0
    Invalid,
    Invalid,
    Invalid,
    Invalid,
    Invalid,
    Invalid,
    Invalid,
    Invalid,
    Invalid,
    Invalid,
    Invalid,
    Invalid,
    Invalid,
    Invalid,
    Invalid,
    Invalid,
    \* 0x3F0
    Invalid,
    Invalid,
    Invalid,
    Invalid,
    Invalid,
    Invalid,
    Invalid,
    Invalid,
    Invalid,
    Invalid,
    Invalid,
    Invalid,
    Invalid,
    Invalid,
    Invalid,
    Invalid
    >>

\* The one-byte opcodes that long mode removed and legacy 32-bit mode keeps.
LegacyOpcodes ==
    {6, 7, 14, 22, 23, 30, 31, 39, 47, 55, 63, 96, 97, 98, 99, 130, 196, 197, 212, 213, 214}

\* The one-byte opcodes whose operands the decoder model materialises.
DecodedOpcodes ==
    {0, 1, 2, 3, 4, 5, 116, 128, 129, 131, 144, 152, 232, 233, 255} \cup LegacyOpcodes

\* A table that lists the opcodes long mode removed as undefined.
decoding_table_LongMode(opc) ==
    IF opc \in LegacyOpcodes THEN Invalid
    ELSE IF opc \in DecodedOpcodes THEN decoding_table_entries[opc + 1]
    ELSE [t |-> "Unmodelled"]

\* decoding_table[opc] for the opcodes whose operands are materialised; the
\* others are left out of decoding ("Unmodelled").
decoding_table(opc) ==
    IF opc \in DecodedOpcodes THEN decoding_table_entries[opc + 1]
    ELSE [t |-> "Unmodelled"]

\* The decoder's members when Decode(addr) starts on a stream holding bs at addr.
NewDecoder(bs, a) ==
    [bs |-> bs, pos |-> 0, addr |-> a, group1pfx |-> <<>>, sizepfx |-> FALSE,
     addrpfx |-> FALSE, segpfx |-> None, modrm |-> NoModRM, opc |-> 0, exc |-> "none"]

SegOfPrefix(b) ==
    CASE b = 38 -> "ES" [] b = 46 -> "CS" [] b = 54 -> "SS" [] b = 62 -> "DS"
      [] b = 100 -> "FS" [] b = 101 -> "GS" [] OTHER -> None

PF1OfByte(b) ==
    CASE b = 240 -> "LOCK" [] b = 242 -> "REPNE" [] b = 243 -> "REP" [] OTHER -> None

\* An escape that knows the map after 0F only: 38 and 3A are opcodes in it.
DecodeEscape_OneMap(d) ==
    LET Second(b) ==
            IF b.exc # "none" THEN [d EXCEPT !.exc = b.exc]
            ELSE [d EXCEPT !.pos = b.pos, !.opc = 256 + b.val]
    IN  Second(Byte(d.bs, d.pos, 0))

\* The opcode after the escape byte 0F: 0x200 + b after 0F 38, 0x300 + b after
\* 0F 3A, 0x100 + b after 0F alone.
DecodeEscape(d) ==
    LET Third(n, base, c) ==
            IF c.exc # "none" THEN [n EXCEPT !.exc = c.exc]
            ELSE [n EXCEPT !.pos = c.pos, !.opc = base + c.val]
        Tertiary(n, base) == Third(n, base, Byte(n.bs, n.pos, 0))
        Second(b) ==
            IF b.exc # "none" THEN [d EXCEPT !.exc = b.exc]
            ELSE IF b.val = 56 THEN Tertiary([d EXCEPT !.pos = b.pos], 512)
            ELSE IF b.val = 58 THEN Tertiary([d EXCEPT !.pos = b.pos], 768)
            ELSE [d EXCEPT !.pos = b.pos, !.opc = 256 + b.val]
    IN  Second(Byte(d.bs, d.pos, 0))

\* The prefix loop: every prefix byte is recorded, 0F enters the escape maps,
\* the first other byte is the opcode.
RECURSIVE DecodePrefixes(_)
DecodePrefixes(d) ==
    LET Prefix(n, v) ==
            IF PF1OfByte(v) # None
            THEN DecodePrefixes([n EXCEPT !.group1pfx = Append(d.group1pfx, PF1OfByte(v))])
            ELSE IF v = 102 THEN DecodePrefixes([n EXCEPT !.sizepfx = TRUE])
            ELSE IF v = 103 THEN DecodePrefixes([n EXCEPT !.addrpfx = TRUE])
            ELSE IF SegOfPrefix(v) # None
            THEN DecodePrefixes([n EXCEPT !.segpfx = SegOfPrefix(v)])
            ELSE IF v = 15 THEN DecodeEscape(n)
            ELSE [n EXCEPT !.opc = v]
        Read(b) ==
            IF b.exc # "none" THEN [d EXCEPT !.exc = b.exc]
            ELSE Prefix([d EXCEPT !.pos = b.pos], b.val)
    IN  Read(Byte(d.bs, d.pos, 0))

\* The decoder's ModRM property: decoded from the stream on first access.
DecModRM(d) ==
    LET Decoded(r) ==
            [d EXCEPT !.modrm = [kind |-> IF d.addrpfx THEN "16" ELSE "32", m |-> r.m],
                      !.pos = r.pos, !.exc = r.exc]
    IN  IF d.modrm.kind # None \/ d.exc # "none" THEN d
        ELSE IF d.addrpfx THEN Decoded(Decode16(d.bs, d.pos, 0))
        ELSE Decoded(Decode32(d.bs, d.pos, 0))

\* The memory operand a decoded ModR/M stands for.
DecMem(d, size) ==
    LET Seg(m) == [m EXCEPT !.seg = IF d.segpfx # None THEN d.segpfx ELSE DefaultSeg(m)]
        Parts16(p) == Seg(Mem("Mem16", "DS", size, p[1], p[2], 0, p[3]))
        Parts32(p) == Seg(Mem("Mem32", "DS", size, p[1], p[2], p[3], p[4]))
    IN  IF d.modrm.kind = "16" THEN Parts16(Interpret16(d.modrm.m))
        ELSE Parts32(Interpret32(d.modrm.m))

\* An immediate of n bytes read from the stream, as a 32-bit pair.
ReadImm(d, n) ==
    LET Narrow(r) == [exc |-> r.exc, pos |-> r.pos, val |-> <<0, r.val>>]
    IN  IF n = 1 THEN Narrow(Byte(d.bs, d.pos, 0))
        ELSE IF n = 2 THEN Narrow(Word(d.bs, d.pos, 0))
        ELSE Dword(d.bs, d.pos, 0)

\* A jump target: the address after the instruction plus the sign-extended
\* displacement, modulo 2^32.
DecJccTarget(d, r, disp) ==
    LET Target(pc) == JccTarget(Add32(pc, disp), pc)
    IN  Target(Add32(d.addr, U32(r.pos)))

\* The operand of a node that is not a prefix switch: [d, op].
DecOperandLeaf(d0, a) ==
    LET Read(r, op) == [d |-> [d0 EXCEPT !.pos = r.pos, !.exc = r.exc], op |-> op]
        GPartOf(d) == [d |-> d, op |-> Reg(a.k, EltOf(RegList(a.k), d.modrm.m.GGG))]
        RegOrMemOf(d) ==
            IF d.exc # "none" THEN [d |-> d, op |-> NoneV]
            ELSE IF d.modrm.m.MOD # 3 THEN [d |-> d, op |-> DecMem(d, a.mem)]
            ELSE IF a.reg = None
            THEN [d |-> [d EXCEPT !.exc = "InvalidInstruction"], op |-> NoneV]
            ELSE [d |-> d, op |-> Reg(a.reg, EltOf(RegList(a.reg), d.modrm.m.RM))]
        Disp(n, v) ==
            IF n = 1 THEN SignExt8To32(v[2])
            ELSE IF n = 2 /\ v[2] >= W16 \div 2 THEN <<W16 - 1, v[2]>>
            ELSE v
        Jump(n, r) == Read(r, DecJccTarget(d0, r, Disp(n, r.val)))
        JumpOf(n) == Jump(n, ReadImm(d0, n))
        SignedOf(r) ==
            Read(r, Imm(a.k, IF a.k = "Iw" THEN SignExt8To16(r.val[2])
                                           ELSE SignExt8To32(r.val[2])))
        ImmOf(r) == Read(r, Imm(a.k, r.val))
    IN  IF a.t = "Exact" THEN [d |-> d0, op |-> a.v]
        ELSE IF a.t = "GPart" THEN GPartOf(DecModRM(d0))
        ELSE IF a.t = "RegOrMem" THEN RegOrMemOf(DecModRM(d0))
        ELSE IF a.k = "JccTarget"
        THEN JumpOf(IF a.t = "SignedImm" THEN 1 ELSE IF d0.addrpfx THEN 2 ELSE 4)
        ELSE IF a.t = "SignedImm" THEN SignedOf(ReadImm(d0, 1))
        ELSE ImmOf(ReadImm(d0, IF a.k = "Ib" THEN 1 ELSE IF a.k = "Iw" THEN 2 ELSE 4))

DecOperand(d, aot) ==
    LET Member(a) == IF a.t # "SizePrefix" THEN a ELSE IF d.sizepfx THEN a.yes ELSE a.no
    IN  DecOperandLeaf(d, Member(AOTtoAOTDL(aot)))

\* The operands of the abstract types aots[i..], in order: [d, ops].
RECURSIVE DecOperands(_, _, _, _)
DecOperands(d, aots, i, ops) ==
    LET Rest(r) == DecOperands(r.d, aots, i + 1, Append(ops, r.op))
    IN  IF i > Len(aots) \/ d.exc # "none" THEN [d |-> d, ops |-> ops]
        ELSE Rest(DecOperand(d, aots[i]))

\* A loop that takes the prefix farthest from the stem first.
RECURSIVE SSEPop_OldestFirst(_, _)
SSEPop_OldestFirst(pfx, entry) ==
    LET Cur(curpfx) ==
            IF curpfx = "REP" /\ entry.rep.t # "Invalid" THEN entry.rep
            ELSE IF curpfx = "REPNE" /\ entry.repne.t # "Invalid" THEN entry.repne
            ELSE SSEPop_OldestFirst(SubSeq(pfx, 2, Len(pfx)), entry)
    IN  IF pfx = <<>> THEN [t |-> "NameError"] ELSE Cur(pfx[1])

\* The loop of SSE.decode: pop the prefix closest to the stem until one is REP
\* or REPNE with a valid entry.  pop() on the emptied list raises IndexError,
\* and matching it against "except e,Exception" evaluates the unbound name e.
RECURSIVE SSEPop(_, _)
SSEPop(pfx, entry) ==
    LET Cur(curpfx) ==
            IF curpfx = "REP" /\ entry.rep.t # "Invalid" THEN entry.rep
            ELSE IF curpfx = "REPNE" /\ entry.repne.t # "Invalid" THEN entry.repne
            ELSE SSEPop(SubSeq(pfx, 1, Len(pfx) - 1), entry)
    IN  IF pfx = <<>> THEN [t |-> "NameError"] ELSE Cur(pfx[Len(pfx)])

\* An SSE.decode that takes from the decoder's list only the prefix it used.
SSE_decode_KeepUnused(d, entry) ==
    LET used == {i \in 1..Len(d.group1pfx) :
                    \/ d.group1pfx[i] = "REP" /\ entry.rep.t # "Invalid"
                    \/ d.group1pfx[i] = "REPNE" /\ entry.repne.t # "Invalid"}
        Last(s) == CHOOSE i \in s : \A j \in s : j <= i
        Without(i) == SubSeq(d.group1pfx, 1, i - 1) \o SubSeq(d.group1pfx, i + 1, Len(d.group1pfx))
        Popped(e) ==
            IF e.t = "NameError"
            THEN [d |-> [d EXCEPT !.exc = "NameError"], entry |-> Invalid]
            ELSE [d |-> [d EXCEPT !.group1pfx = Without(Last(used))], entry |-> e]
    IN  IF Len(d.group1pfx) # 0 THEN Popped(SSEPop(d.group1pfx, entry))
        ELSE IF d.sizepfx /\ entry.size.t # "Invalid" THEN [d |-> d, entry |-> entry.size]
        ELSE [d |-> d, entry |-> entry.no]

\* SSE.decode: [d, entry]; decoder.group1pfx is emptied when it held a prefix.
SSE_decode(d, entry) ==
    LET Popped(e) ==
            IF e.t = "NameError"
            THEN [d |-> [d EXCEPT !.group1pfx = <<>>, !.exc = "NameError"], entry |-> Invalid]
            ELSE [d |-> [d EXCEPT !.group1pfx = <<>>], entry |-> e]
    IN  IF Len(d.group1pfx) # 0 THEN Popped(SSEPop(d.group1pfx, entry))
        ELSE IF d.sizepfx /\ entry.size.t # "Invalid" THEN [d |-> d, entry |-> entry.size]
        ELSE [d |-> d, entry |-> entry.no]

\* The reduction of a table entry to a Direct entry: [d, entry].
\* Predicated.decode: the overridden entry when the condition holds.
Predicated_decode_Swapped(c, entry) == IF c THEN entry.regular ELSE entry.overridden

Predicated_decode(c, entry) == IF c THEN entry.overridden ELSE entry.regular

\* The cond methods: sizepfx for PredOpSize, addrpfx for PredAddrSize, "the
\* ModRM refers to memory" for PredMOD.
Predicated_cond(d, entry) ==
    IF entry.t = "PredOpSize" THEN d.sizepfx
    ELSE IF entry.t = "PredAddrSize" THEN d.addrpfx
    ELSE d.modrm.m.MOD # 3

\* One step of the reduction of a table entry: [d, entry].  Group and RMGroup
\* select by the GGG and RM fields of the decoder's ModRM.
ReduceStep(d0, entry) ==
    LET Member(d) == [d |-> d, entry |-> entry.entries[d.modrm.m.GGG + 1]]
        RMMember(d) == [d |-> d, entry |-> entry.entries[d.modrm.m.RM + 1]]
        OnMOD(d) == [d |-> d, entry |-> IF d.exc # "none" THEN Invalid
                                        ELSE Predicated_decode(Predicated_cond(d, entry), entry)]
    IN  IF entry.t \in {"PredOpSize", "PredAddrSize"}
        THEN [d |-> d0, entry |-> Predicated_decode(Predicated_cond(d0, entry), entry)]
        ELSE IF entry.t = "PredMOD" THEN OnMOD(DecModRM(d0))
        ELSE IF entry.t = "Group" THEN Member(DecModRM(d0))
        ELSE IF entry.t = "RMGroup" THEN RMMember(DecModRM(d0))
        ELSE IF entry.t = "SSE" THEN SSE_decode(d0, entry)
        ELSE [d |-> d0, entry |-> entry]

\* The reduction of a table entry to an entry that selects no other: [d,
\* entry, path], path listing the entries passed, each with the entry it
\* selected and the decoder's MOD field (None before the ModRM is decoded).
RECURSIVE ReducePath(_, _, _)
ReducePath(d0, entry, path) ==
    LET Passed(r) ==
            Append(path, [entry |-> entry, to |-> r.entry,
                          mod |-> IF r.d.modrm.kind = None THEN None ELSE r.d.modrm.m.MOD])
        Step(r) ==
            IF r.d.exc # "none" THEN [d |-> r.d, entry |-> r.entry, path |-> Passed(r)]
            ELSE ReducePath(r.d, r.entry, Passed(r))
    IN  IF entry.t \in {"PredOpSize", "PredAddrSize", "PredMOD", "Group", "RMGroup", "SSE"}
        THEN Step(ReduceStep(d0, entry))
        ELSE [d |-> d0, entry |-> entry, path |-> path]

ReduceEntry(d0, entry) == ReducePath(d0, entry, <<>>)

NoInstr == [mnem |-> None, ops |-> <<>>, prefixes |-> <<>>]

\* X86Decoder(StreamObj(bs)).Decode(addr): [exc, instr, len].
Decode(bs, a) ==
    LET Failed(exc, d) == [exc |-> exc, instr |-> NoInstr, len |-> d.pos]
        Operands(pfx, entry, o) ==
            IF o.d.exc # "none" THEN Failed(o.d.exc, o.d)
            ELSE [exc |-> "none", len |-> o.d.pos,
                  instr |-> [mnem |-> entry.mnem, ops |-> o.ops, prefixes |-> pfx]]
        Entry(pfx, d, entry) ==
            IF d.exc # "none" THEN Failed(d.exc, d)
            ELSE IF entry.t = "Unmodelled" THEN Failed("Unmodelled", d)
            ELSE IF entry.t # "Direct" THEN Failed("InvalidInstruction", d)
            ELSE Operands(pfx, entry, DecOperands(d, entry.ops, 1, <<>>))
        Reduced(r) == Entry(r.d.group1pfx, r.d, r.entry)
        Opcode(d1) ==
            IF d1.exc # "none" THEN Failed(d1.exc, d1)
            ELSE Reduced(ReduceEntry(d1, decoding_table(d1.opc)))
    IN  Opcode(DecodePrefixes(NewDecoder(bs, a)))

\* Instruction equality: mnemonic, number of operands, operands.
InstrEq(i1, i2) == i1.mnem = i2.mnem /\ Len(i1.ops) = Len(i2.ops) /\ i1.ops = i2.ops

----------------------------------------------------------------------------
(* Operations on a StreamObj                                               *)

NoStreamOp == [op |-> "none", exc |-> "none", val |-> 0, before |-> 0, calls |-> 0]

NoTest == [op |-> "none"]

InitStream ==
    /\ bytes \in {StreamBytes(0), StreamBytes(1)}
    /\ pos = 0
    /\ origpos = 0
    /\ sres = NoStreamOp
    /\ ncalls = 0
    /\ mt = NoTest
    /\ encoder = NewEncoder
    /\ eres = NoEncoderOp
    /\ check_sizes = None

DoByte ==
    LET r == Byte(bytes, pos, origpos)
    IN  /\ pos' = r.pos
        /\ sres' = [op |-> "Byte", exc |-> r.exc, val |-> r.val,
                    before |-> pos, calls |-> ncalls]
        /\ ncalls' = ncalls + (r.pos - pos)
        /\ UNCHANGED <<bytes, origpos, tvars>>

DoWord ==
    LET r == Word(bytes, pos, origpos)
    IN  /\ pos' = r.pos
        /\ sres' = [op |-> "Word", exc |-> r.exc, val |-> r.val,
                    before |-> pos, calls |-> ncalls]
        /\ ncalls' = ncalls + (r.pos - pos)
        /\ UNCHANGED <<bytes, origpos, tvars>>

DoDword ==
    LET r == Dword(bytes, pos, origpos)
    IN  /\ pos' = r.pos
        /\ sres' = [op |-> "Dword", exc |-> r.exc, val |-> r.val,
                    before |-> pos, calls |-> ncalls]
        /\ ncalls' = ncalls + (r.pos - pos)
        /\ UNCHANGED <<bytes, origpos, tvars>>

SetPos(ea) ==
    /\ pos' = ea
    /\ origpos' = ea
    /\ sres' = [op |-> "SetPos", exc |-> "none", val |-> ea,
                before |-> pos, calls |-> ncalls]
    /\ ncalls' = 0
    /\ UNCHANGED <<bytes, tvars>>

DoSetPos == \E ea \in 0..MaxEa : SetPos(ea)

NextStream == DoByte \/ DoWord \/ DoDword \/ DoSetPos

SpecStream == InitStream /\ [][NextStream]_vars

\* C6: counting from the most recent SetPos (or from construction), the first
\* 15 Byte() calls succeed and the call that would read the 16th byte raises
\* InvalidInstruction; SetPos(ea) sets pos and origpos to ea and restarts the
\* count.  (Streams that still hold a byte at the position read.)
C6_Cap15 ==
    /\ (sres.op = "Byte" /\ sres.before < Len(bytes))
          => ((sres.exc = "InvalidInstruction") <=> (sres.calls >= 15))
    /\ (sres.op = "SetPos")
          => (pos = sres.val /\ origpos = sres.val /\ ncalls = 0)

----------------------------------------------------------------------------
(* TestModRM16 and TestModRM32                                             *)

\* Displacements are drawn within DispSpan of the values where the encoding
\* changes shape.
DispSpan == 1

Near(x) == {Add32(x, U32(k)) : k \in 0..DispSpan} \cup {Sub32(x, U32(k)) : k \in 0..DispSpan}

\* rnd_displ(choose_none, 0xFFFF): None, a sign-extended byte or any 16-bit value.
Disp16Values ==
    {d \in UNION {Near(<<0, a>>) : a \in {0, 128, W8, W16 \div 2, W16 - 128}} : d[1] = 0}

\* rnd_displ(choose_none, 0xFFFFFFFF)
Disp32Values ==
    UNION {Near(x) : x \in {<<0, 0>>, <<0, 128>>, <<0, W8>>, <<1, 0>>,
                            <<W16 \div 2, 0>>, <<W16 - 1, W16 - 128>>}}

rnd_displ(choose_none, values) == values \cup (IF choose_none THEN {NoneV} ELSE {})

\* The displacement comparison of the tests: "if d is not None: if nd is None:
\* d == 0 else d == nd; elif nd is not None: nd == 0", TRUE when it fails.
DisplFails(x, y) ==
    IF x # NoneV THEN (IF y = NoneV THEN x # <<0, 0>> ELSE x # y)
    ELSE (y # NoneV /\ y # <<0, 0>>)

\* StreamObj(bytes): a stream at position 0 reading the bytes just encoded.
DecodeFresh16(enc) == Decode16(enc, 0, 0)
DecodeFresh32(enc) == Decode32(enc, 0, 0)

\* TestModRM16.one_iteration on the choice (b, sr, d).
TestModRM16(b, sr, d) ==
    LET m   == EncodeFromParts16(b, sr, d)
        n   == Interpret16(m)
        enc == Encode16([m EXCEPT !.GGG = 7])
        dec == DecodeFresh16(enc)
        dn  == Interpret16(dec.m)
    IN  /\ mt' = [op |-> "test16", b |-> b, sr |-> sr, sf |-> 0, d |-> d,
                  nb |-> n[1], nsr |-> n[2], nsf |-> 0, nd |-> n[3],
                  enc |-> enc, exc |-> dec.exc,
                  db |-> dn[1], dsr |-> dn[2], dsf |-> 0, dd |-> dn[3],
                  failed |-> \/ b # n[1] \/ sr # n[2] \/ DisplFails(d, n[3])
                             \/ dec.exc # "none"
                             \/ dn[1] # n[1] \/ dn[2] # n[2] \/ DisplFails(dn[3], n[3])]
        /\ UNCHANGED <<svars, encoder, eres, check_sizes>>

\* TestModRM32.one_iteration on the choice (b, sr, sf, d).
TestModRM32(b, sr, sf, d) ==
    LET m   == EncodeFromParts32(b, sr, sf, d)
        n   == Interpret32(m)
        enc == Encode32([m EXCEPT !.GGG = 7])
        dec == DecodeFresh32(enc)
        dn  == Interpret32(dec.m)
    IN  /\ mt' = [op |-> "test32", b |-> b, sr |-> sr, sf |-> sf, d |-> d,
                  nb |-> n[1], nsr |-> n[2], nsf |-> n[3], nd |-> n[4],
                  enc |-> enc, exc |-> dec.exc,
                  db |-> dn[1], dsr |-> dn[2], dsf |-> dn[3], dd |-> dn[4],
                  failed |-> \/ b # n[1] \/ sr # n[2] \/ sf # n[3] \/ DisplFails(d, n[4])
                             \/ dec.exc # "none"
                             \/ dn[1] # n[1] \/ dn[2] # n[2] \/ DisplFails(dn[4], n[4])]
        /\ UNCHANGED <<svars, encoder, eres, check_sizes>>

\* The iterations of the test loops are independent of each other: an iteration
\* starts from nothing and EndIteration drops what it saw.
DoTestModRM16 ==
    /\ mt = NoTest
    /\ \E f \in {modrm_16[i] : i \in 1..8} \cup {<<None, None>>} :
        \E d \in rnd_displ(f # <<None, None>>, Disp16Values) :
            TestModRM16(f[1], f[2], d)

\* rnd_reg32() or None; (rnd_reg32_noesp(), rnd_scale()) or (None, 0).
DoTestModRM32 ==
    /\ mt = NoTest
    /\ \E b \in {R32List[i] : i \in 1..8} \cup {None} :
        \E ix \in ((({R32List[i] : i \in 1..8} \ {"Esp"}) \X (0..3)) \cup {<<None, 0>>}) :
            \E d \in rnd_displ(~(b = None /\ ix[1] = None), Disp32Values) :
                TestModRM32(b, ix[1], ix[2], d)

InitModRM ==
    /\ bytes = <<>>
    /\ pos = 0
    /\ origpos = 0
    /\ sres = NoStreamOp
    /\ ncalls = 0
    /\ mt = NoTest
    /\ encoder = NewEncoder
    /\ eres = NoEncoderOp
    /\ check_sizes = None

EndIteration ==
    /\ mt # NoTest
    /\ mt' = NoTest
    /\ UNCHANGED <<svars, encoder, eres, check_sizes>>

NextModRM == DoTestModRM16 \/ DoTestModRM32 \/ EndIteration

SpecModRM == InitModRM /\ [][NextModRM]_vars

\* Two displacements are equal when they are the same value, an absent one
\* counting as 0.
DispEquiv(x, y) ==
    (IF x = NoneV THEN <<0, 0>> ELSE x) = (IF y = NoneV THEN <<0, 0>> ELSE y)

\* C7: ModRM32 roundtrip: Interpret() after EncodeFromParts(base, index, scale,
\* disp) gives back base, index, scale and an equal displacement, and so does
\* Interpret() on a fresh ModRM32 that Decode()d the bytes of Encode().
C7_ModRM32Roundtrip ==
    mt.op = "test32" =>
        /\ mt.nb = mt.b /\ mt.nsr = mt.sr /\ mt.nsf = mt.sf /\ DispEquiv(mt.nd, mt.d)
        /\ mt.exc = "none"
        /\ mt.db = mt.b /\ mt.dsr = mt.sr /\ mt.dsf = mt.sf /\ DispEquiv(mt.dd, mt.d)

\* A 32-bit roundtrip that went through a SIB byte and a 32-bit displacement.
C7_Witness ==
    /\ mt.op = "test32" /\ mt.b = "Ebp" /\ mt.sr = "Esi" /\ mt.sf = 3
    /\ mt.d = <<W16 - 1, W16 - 129>> /\ Len(mt.enc) = 6 /\ mt.dd = mt.d

\* C8: ModRM16 roundtrip: Interpret() after EncodeFromParts(base, index, disp)
\* gives back base and index and an equal displacement, and so does Interpret()
\* on a fresh ModRM16 that Decode()d the bytes of Encode(); a bare [BP] is
\* emitted with a displacement byte (MOD 01 or 10), never as MOD=00, R/M=110.
C8_ModRM16Roundtrip ==
    mt.op = "test16" =>
        /\ mt.nb = mt.b /\ mt.nsr = mt.sr /\ DispEquiv(mt.nd, mt.d)
        /\ mt.exc = "none"
        /\ mt.db = mt.b /\ mt.dsr = mt.sr /\ DispEquiv(mt.dd, mt.d)
        /\ (mt.b = "Bp" /\ mt.sr = None) =>
               (mt.enc[1] \div 64 \in {1, 2} /\ Len(mt.enc) >= 2)

\* A bare [BP] without displacement went round as [BP+0].
C8_Witness ==
    /\ mt.op = "test16" /\ mt.b = "Bp" /\ mt.sr = None /\ mt.d = NoneV
    /\ mt.enc = <<126, 0>> /\ mt.dd = <<0, 0>> /\ ~mt.failed

----------------------------------------------------------------------------
(* Encoding and decoding instructions (TestX86EndToEnd)                    *)

Instruction(mnem, ops) == [mnem |-> mnem, ops |-> ops, prefixes |-> <<>>]

\* The operands instructions are built from.
Registers ==
    {Reg("Gb", "Al"), Reg("Gb", "Cl"), Reg("Gb", "Bh"), Reg("Gw", "Ax"), Reg("Gw", "Bx"),
     Reg("Gd", "Eax"), Reg("Gd", "Ecx"), Reg("Gd", "Ebp")}

Immediates ==
    {Imm("Ib", <<0, 0>>), Imm("Ib", <<0, 127>>), Imm("Ib", <<0, 255>>),
     Imm("Iw", <<0, 5>>), Imm("Iw", <<0, 128>>), Imm("Iw", <<0, W16 - 128>>),
     Imm("Iw", <<0, 4660>>),
     Imm("Id", <<0, 5>>), Imm("Id", <<0, 128>>), Imm("Id", <<W16 - 1, W16 - 128>>),
     Imm("Id", <<4660, 22136>>)}

Memories ==
    {Mem("Mem32", "DS", "Md", "Eax", None, 0, NoneV),
     Mem("Mem32", "SS", "Md", "Ebp", None, 0, NoneV),
     Mem("Mem32", "ES", "Md", "Eax", "Ecx", 1, <<0, 256>>),
     Mem("Mem32", "DS", "Mb", "Eax", None, 0, NoneV),
     Mem("Mem32", "SS", "Mw", "Esp", None, 0, <<0, 4>>),
     Mem("Mem32", "FS", "Md", None, None, 0, <<4660, 22136>>),
     Mem("Mem16", "DS", "Mw", "Bx", "Si", 0, NoneV),
     Mem("Mem16", "ES", "Mw", "Bx", "Si", 0, NoneV),
     Mem("Mem16", "DS", "Md", "Bp", None, 0, NoneV),
     Mem("Mem16", "DS", "Mb", None, None, 0, <<0, 4660>>)}

\* Addresses instructions are encoded at, and jump destinations.
Addresses == {<<0, 0>>, <<0, 4096>>, <<W16 - 1, W16 - 3>>}

Targets ==
    UNION {Near(x) : x \in {<<0, 0>>, <<0, 256>>, <<1, 0>>, <<W16 \div 2, 0>>,
                            <<W16 - 1, W16 - 1>>}}

\* A jump of n bytes at address a to t: the not-taken address follows the jump.
JumpAt(mnem, t, a, n) == Instruction(mnem, <<JccTarget(t, Add32(a, U32(n)))>>)

\* The pairs <<instruction, address>> given to EncodeInstruction.
EncoderInputs ==
    LET plain ==
            {Instruction(m, <<>>) : m \in {"Aaa", "Cbw", "Cwde"}}
            \cup {Instruction("Add", <<x, y>>) :
                      x \in Registers \cup Memories,
                      y \in Registers \cup Memories \cup Immediates}
            \cup {Instruction(m, <<x>>) :
                      m \in {"Jmp", "Call"}, x \in Registers \cup Memories}
        locked ==
            {[Instruction("Add", <<x, Reg("Gd", "Ecx")>>) EXCEPT !.prefixes = <<pf>>] :
                 x \in Memories, pf \in {"LOCK", "REP", "REPNE"}}
    IN  ((plain \cup locked) \X {<<0, 0>>})
        \cup {<<JumpAt(m[1], t, a, m[2]), a>> :
                  m \in {<<"Jmp", 5>>, <<"Call", 5>>, <<"Jz", 2>>, <<"Jz", 6>>},
                  t \in Targets, a \in Addresses}

\* Byte sequences given to the decoder before re-encoding what it decoded.
DecoderInputs ==
    {pfx \o body :
        pfx \in {<<>>, <<240>>, <<243>>, <<242>>, <<102>>, <<38>>, <<240, 102>>},
        body \in {<<1, 8>>, <<0, 8>>, <<3, 200>>, <<1, 69, 0>>, <<131, 192, 5>>,
                  <<129, 192, 5, 0, 0, 0>>, <<128, 0, 127>>, <<5, 120, 86, 52, 18>>,
                  <<55>>, <<152>>, <<233, 251, 0, 0, 0>>, <<232, 251, 0, 0, 0>>,
                  <<116, 5>>, <<255, 224>>, <<255, 16>>, <<255, 248>>, <<144>>}}

NotRun == [exc |-> "notrun", out |-> <<>>, e |-> Reset, chosen |-> 0]
NotDecoded == [exc |-> "notrun", instr |-> NoInstr, len |-> 0]

\* TestX86EndToEnd.one_iteration on instr: encode at address a, then decode
\* the bytes at a.
EncodeDecode(instr, a) ==
    \E r \in {EncodeInstruction(instr, a)} :
        \E d \in {IF r.exc = "none" THEN Decode(r.out, a) ELSE NotDecoded} :
            /\ encoder' = Members(r.e)
            /\ eres' = [op |-> "EncodeDecode", src |-> <<>>, instr |-> instr, addr |-> a,
                        exc |-> r.exc, out |-> r.out, chosen |-> r.chosen,
                        dexc |-> d.exc, dec |-> d.instr]
            /\ check_sizes' = EncoderCheckSizes(check_sizes, instr, r.chosen)
            /\ UNCHANGED <<svars, mt>>

\* Decode bs at address 0, then encode the instruction decoded at address 0.
DecodeEncode(bs) ==
    \E d \in {Decode(bs, <<0, 0>>)} :
        \E r \in {IF d.exc = "none" THEN EncodeInstruction(d.instr, <<0, 0>>) ELSE NotRun} :
            /\ encoder' = IF d.exc = "none" THEN Members(r.e) ELSE encoder
            /\ eres' = [op |-> "DecodeEncode", src |-> bs, instr |-> d.instr,
                        addr |-> <<0, 0>>, exc |-> r.exc, out |-> r.out,
                        chosen |-> r.chosen, dexc |-> d.exc, dec |-> d.instr]
            /\ check_sizes' = IF d.exc = "none"
                              THEN EncoderCheckSizes(check_sizes, d.instr, r.chosen)
                              ELSE check_sizes
            /\ UNCHANGED <<svars, mt>>

DoEncodeDecode ==
    /\ eres = NoEncoderOp
    /\ \E ia \in EncoderInputs : EncodeDecode(ia[1], ia[2])

DoDecodeEncode ==
    /\ eres = NoEncoderOp
    /\ \E bs \in DecoderInputs : DecodeEncode(bs)

\* The instructions lists are made of: encodings of 1, 5 and 6 bytes, a jump
\* whose bytes depend on the address, and two that EncodeInstruction rejects.
ListInstructions ==
    {Instruction("Aaa", <<>>),
     Instruction("Add", <<Reg("Gd", "Eax"), Imm("Id", <<0, 5>>)>>),
     Instruction("Add", <<Reg("Gd", "Ecx"), Imm("Id", <<0, 5>>)>>),
     Instruction("Jmp", <<JccTarget(<<0, 256>>, <<0, 0>>)>>),
     Instruction("Add", <<Reg("Gd", "Eax"), Reg("Gb", "Al")>>),
     Instruction("Jz", <<JccTarget(<<0, 256>>, <<0, 0>>)>>)}

MaxInstrs == 3

InstructionLists == UNION {[1..n -> ListInstructions] : n \in 0..MaxInstrs}

\* self.encoder.EncodeInstructions(instrs, addr)
EncodeInstructions(instrs, addr) ==
    \E r \in {EncodeLoop(instrs, 1, addr, <<>>, encoder, check_sizes)} :
        /\ encoder' = r.e
        /\ eres' = [op |-> "EncodeInstructions", instrs |-> instrs, addr |-> addr,
                    exc |-> r.exc, out |-> r.out]
        /\ check_sizes' = r.cs
        /\ UNCHANGED <<svars, mt>>

DoEncodeInstructions ==
    /\ eres = NoEncoderOp
    /\ \E instrs \in InstructionLists : \E addr \in Addresses :
           EncodeInstructions(instrs, addr)

\* An encoder that has encoded an instruction before: every member is set.
UsedEncoder ==
    Members(EncodeInstruction(
        Instruction("Add", <<Mem("Mem16", "ES", "Mw", "Bx", "Si", 0, NoneV),
                             Imm("Iw", <<0, 4660>>)>>), <<0, 4096>>).e)

InitEnc ==
    /\ bytes = <<>>
    /\ pos = 0
    /\ origpos = 0
    /\ sres = NoStreamOp
    /\ ncalls = 0
    /\ mt = NoTest
    /\ encoder \in {NewEncoder, UsedEncoder}
    /\ eres = NoEncoderOp
    /\ check_sizes = IF encoder = NewEncoder THEN None ELSE "True"

NextEnc == DoEncodeDecode \/ DoDecodeEncode \/ DoEncodeInstructions

SpecEnc == InitEnc /\ [][NextEnc]_vars

\* The mnemonics TestX86EndToEnd skips.
multi_operand_mnems ==
    {"Das", "Aad", "Aam", "Lodsb", "Lodsw", "Lodsd", "Cmpsb", "Cmpsw", "Cmpsd",
     "Movsb", "Movsw", "Movsd", "Stosb", "Stosw", "Stosd", "Scasb", "Scasw", "Scasd"}

\* The Direct entries an entry of the decoding table can reduce to.
DirectOf(entry) ==
    IF entry.t = "Direct" THEN {entry}
    ELSE IF entry.t = "PredOpSize" THEN {entry.overridden, entry.regular}
    ELSE IF entry.t = "Group"
    THEN {entry.entries[i] : i \in {j \in 1..8 : entry.entries[j].t = "Direct"}}
    ELSE {}

\* A well-formed instruction: its mnemonic and operands are those of an
\* instruction of the instruction set, as the decoding table lists it.
WellFormed(instr) ==
    \E opc \in 0..255 : \E en \in DirectOf(decoding_table(opc)) :
        en.mnem = instr.mnem /\ TypeCheckInstruction_exn(instr, en.ops).exc = "none"

\* Does encoding i of the mnemonic's list type-check against the instruction?
Matches(instr, i) ==
    TypeCheckInstruction_exn(instr, mnem_to_encodings(instr.mnem).encs[i].ops).exc = "none"

Candidates(instr) ==
    {i \in 1..Len(mnem_to_encodings(instr.mnem).encs) : Matches(instr, i)}

Encoded == eres.op \in {"EncodeDecode", "DecodeEncode"} /\ eres.exc # "notrun"

\* C1: for every well-formed instruction outside the exception class,
\* EncodeInstruction(i, 0) returns bytes and decoding them at address 0 yields
\* an instruction equal to i (mnemonic, number of operands, operands).
C1_EncodeDecodeFixpoint ==
    (eres.op = "EncodeDecode" /\ eres.addr = <<0, 0>> /\ WellFormed(eres.instr)
     /\ eres.instr.mnem \notin multi_operand_mnems)
        => (eres.exc = "none" /\ eres.dexc = "none" /\ InstrEq(eres.dec, eres.instr))

\* C2: EncodeInstruction encodes with the first encoding, in table order, whose
\* AOT list type-checks; encodings that fail to type-check are skipped, their
\* X86TypeCheckError never escapes and they leave nothing in the output.
C2_FirstMatchingCandidate ==
    (Encoded /\ mnem_to_encodings(eres.instr.mnem).listed) =>
        LET c == Candidates(eres.instr)
            first == CHOOSE i \in c : \A j \in c : i <= j
            enc == mnem_to_encodings(eres.instr.mnem).encs[first]
            val == TypeCheckInstruction_exn(eres.instr, enc.ops).val
        IN  /\ eres.exc # "X86TypeCheckError"
            /\ (c = {}) => (eres.chosen = 0 /\ eres.out = <<>>)
            /\ (c # {}) =>
                   /\ eres.chosen = first
                   /\ encoder.stem = enc.bytes
                   /\ eres.out = Assemble(EncodeWith([Reset EXCEPT !.addr = eres.addr],
                                                     eres.instr, enc, val))

\* ADD EAX, 5 matches the sixth, eighth and ninth encodings of Add and is
\* encoded with the sixth, after five encodings were skipped.
C2_Witness ==
    /\ eres.op = "EncodeDecode" /\ eres.instr.mnem = "Add"
    /\ Candidates(eres.instr) = {6, 8, 9}
    /\ eres.chosen = 6 /\ eres.out = <<5, 5, 0, 0, 0>>

\* C16: in the list of encodings of Add the sign-extended-imm8 candidate (stem
\* 83, OEv OIbv) comes before the full-width immediate candidate (stem 81,
\* OEv OIz), so an instruction both candidates accept, and that is encoded
\* with one of the two, is encoded with the 83 form.
C16_SignExtFormFirst ==
    LET encs == mnem_to_encodings("Add").encs
        i83 == CHOOSE i \in 1..Len(encs) : encs[i].bytes = <<131>>
        i81 == CHOOSE i \in 1..Len(encs) : encs[i].bytes = <<129>>
    IN  (Encoded /\ eres.instr.mnem = "Add" /\ {i81, i83} \subseteq Candidates(eres.instr))
        => /\ i83 < i81
           /\ (eres.chosen \in {i81, i83}) => (eres.chosen = i83 /\ encoder.stem = <<131>>)

\* C19: the byte list EncodeInstruction returns has at most 15 bytes, and a
\* call that fails returns no bytes.
C19_EncodingLength ==
    Encoded => /\ Len(eres.out) <= 15
               /\ (eres.exc # "none") => (eres.out = <<>>)

\* ADD ES:[EAX+ECX*2+0x100], 0x12345678: segment prefix, stem, ModR/M, SIB, four
\* bytes of displacement and four of immediate.
C19_Witness ==
    /\ eres.op = "EncodeDecode"
    /\ eres.exc = "none"
    /\ eres.out = <<38, 129, 132, 72, 0, 1, 0, 0, 120, 86, 52, 18>>

\* C20: EncodeInstructions(instrs, addr) returns the concatenation, in list
\* order, of EncodeInstruction(instrs[k], addrs[k]), where addrs[1] = addr and
\* addrs[k + 1] = addrs[k] + the length of the encoding of instrs[k]; an
\* exception of one of these calls is the exception of EncodeInstructions.
C20_EncodeInstructionsConcatenates ==
    (eres.op = "EncodeInstructions")
    => LET n == Len(eres.instrs)
           addrs[k \in 1..(n + 1)] ==
               IF k = 1 THEN eres.addr
               ELSE Add32(addrs[k - 1],
                          U32(Len(EncodeInstruction(eres.instrs[k - 1], addrs[k - 1]).out)))
           enc(k) == EncodeInstruction(eres.instrs[k], addrs[k])
           cat[k \in 0..n] == IF k = 0 THEN <<>> ELSE cat[k - 1] \o enc(k).out
           failing == {k \in 1..n : enc(k).exc # "none"}
       IN  IF failing = {}
           THEN eres.exc = "none" /\ eres.out = cat[n]
           ELSE eres.exc = enc(CHOOSE k \in failing : \A j \in failing : k <= j).exc

\* AAA, JMP 0x100, ADD ECX, 5 at 0x1000: the jump is encoded at 0x1001.
C20_Witness ==
    /\ eres.op = "EncodeInstructions"
    /\ eres.addr = <<0, 4096>>
    /\ Len(eres.instrs) = 3
    /\ eres.instrs[1].mnem = "Aaa"
    /\ eres.instrs[2].mnem = "Jmp"
    /\ eres.exc = "none"
    /\ eres.out = <<55>> \o EncodeInstruction(eres.instrs[2], <<0, 4097>>).out
                        \o <<129, 193, 5, 0, 0, 0>>
    /\ EncodeInstruction(eres.instrs[2], <<0, 4097>>).out
          # EncodeInstruction(eres.instrs[2], <<0, 4096>>).out

\* C3: whatever the mnemonic (those without a list of encodings included), if
\* no encoding type-checks then EncodeInstruction fails with InvalidInstruction
\* and returns no bytes.
C3_NoCandidateInvalidInstruction ==
    (Encoded /\ (~mnem_to_encodings(eres.instr.mnem).listed \/ Candidates(eres.instr) = {}))
        => (eres.exc = "InvalidInstruction" /\ eres.out = <<>>)

\* C4: the bytes returned are, in this order: segment override, 0x67, 0x66,
\* group-1 prefix, stem, ModR/M bytes, immediates, each present only if the
\* instruction needs it.
C4_OutputOrder ==
    (Encoded /\ eres.exc = "none") =>
        eres.out =
            (IF encoder.segpfx # None THEN <<PrefixOfSeg(encoder.segpfx)>> ELSE <<>>)
            \o (IF encoder.addrpfx THEN <<103>> ELSE <<>>)
            \o (IF encoder.sizepfx THEN <<102>> ELSE <<>>)
            \o (IF encoder.group1pfx # None THEN <<encoder.group1pfx>> ELSE <<>>)
            \o encoder.stem
            \o (IF encoder.modrm.kind = "16" THEN Encode16(encoder.modrm.m)
                ELSE IF encoder.modrm.kind = "32" THEN Encode32(encoder.modrm.m)
                ELSE <<>>)
            \o encoder.immediates

\* ADD word ptr ES:[BX+SI], 0x1234: segment, address and size prefixes, stem,
\* ModR/M and immediate are all there.
C4_Witness ==
    /\ eres.op = "EncodeDecode" /\ eres.exc = "none"
    /\ encoder.segpfx = "ES" /\ encoder.addrpfx /\ encoder.sizepfx
    /\ encoder.modrm.kind = "16" /\ encoder.immediates = <<52, 18>>
    /\ eres.out = <<38, 103, 102, 129, 0, 52, 18>>

ByteOfPF1(pf) == IF pf = "LOCK" THEN 240 ELSE IF pf = "REPNE" THEN 242 ELSE 243

\* C5: encoding an instruction that carries a group-1 prefix (LOCK, REP,
\* REPNE) emits the prefix's byte (F0, F3, F2) right before the stem; the
\* instruction decoded from F0 01 08 re-encodes with the LOCK prefix.
C5_Group1PrefixEmitted ==
    (Encoded /\ eres.exc = "none" /\ eres.instr.prefixes # <<>>) =>
        \E i \in 1..Len(eres.out) :
            /\ eres.out[i] = ByteOfPF1(eres.instr.prefixes[Len(eres.instr.prefixes)])
            /\ SubSeq(eres.out, i + 1, i + Len(encoder.stem)) = encoder.stem

\* C10: EncodeInstruction(JMP t, a) returns E9 and the four little-endian
\* bytes of (t - (a + 5)) mod 2^32, and decoding them at a yields a JccTarget
\* whose taken address is t; JMP 0x100 at 0 is E9 FB 00 00 00.
C10_JmpNear ==
    (eres.op = "EncodeDecode" /\ eres.instr.mnem = "Jmp"
     /\ eres.instr.ops[1].k = "JccTarget") =>
        LET t == eres.instr.ops[1].taken
            disp == Sub32(t, Add32(eres.addr, <<0, 5>>))
        IN  /\ eres.exc = "none"
            /\ eres.out = <<233, disp[2] % W8, disp[2] \div W8, disp[1] % W8, disp[1] \div W8>>
            /\ eres.dexc = "none"
            /\ eres.dec.ops[1].k = "JccTarget"
            /\ eres.dec.ops[1].taken = t
            /\ (t = <<0, 256>> /\ eres.addr = <<0, 0>>) => eres.out = <<233, 251, 0, 0, 0>>

\* A jump whose displacement wraps around: from 0xFFFFFFFD to 0x100.
C10_Witness ==
    /\ eres.op = "EncodeDecode" /\ eres.instr.mnem = "Jmp" /\ eres.addr = <<W16 - 1, W16 - 3>>
    /\ eres.instr.ops[1] = JccTarget(<<0, 256>>, <<0, 2>>)
    /\ eres.out = <<233, 254, 0, 0, 0>>
    /\ eres.dec.ops[1].taken = <<0, 256>>

----------------------------------------------------------------------------
(* X86Encoder.visit_Immediate_JccTarget on its own                         *)

\* The encoder when EncodeInstruction visits the operands: prefixes and stem
\* of the encoding are set, nothing is emitted yet.
JccContexts ==
    {[NewEncoder EXCEPT !.segpfx = sg, !.sizepfx = sz, !.addrpfx = ad,
                        !.stem = st, !.addr = a] :
        sg \in {None, "ES"}, sz \in BOOLEAN, ad \in BOOLEAN,
        st \in {<<233>>, <<15, 132>>}, a \in Addresses}

WithExc(e) ==
    [group1pfx |-> e.group1pfx, stem |-> e.stem, segpfx |-> e.segpfx,
     addrpfx |-> e.addrpfx, sizepfx |-> e.sizepfx, immediates |-> e.immediates,
     modrm |-> e.modrm, addr |-> e.addr, exc |-> "none"]

VisitJccTarget(t) ==
    LET r == visit_Immediate_JccTarget(WithExc(encoder), JccTarget(t, t))
    IN  /\ encoder' = Members(r)
        /\ eres' = [op |-> "visit_Immediate_JccTarget", before |-> encoder,
                    taken |-> t, exc |-> r.exc]
        /\ UNCHANGED <<svars, mt, check_sizes>>

DoVisitJccTarget ==
    /\ eres = NoEncoderOp
    /\ \E t \in Targets : VisitJccTarget(t)

InitJcc ==
    /\ bytes = <<>>
    /\ pos = 0
    /\ origpos = 0
    /\ sres = NoStreamOp
    /\ ncalls = 0
    /\ mt = NoTest
    /\ encoder \in JccContexts
    /\ eres = NoEncoderOp
    /\ check_sizes = None

NextJcc == DoVisitJccTarget

SpecJcc == InitJcc /\ [][NextJcc]_vars

----------------------------------------------------------------------------
(* The type checker on its own (TestX86TypeCheckerRandomly)                *)

\* The abstract operand types check() is called with.
TCAops ==
    {"OEb", "OEv", "OGb", "OGv", "OAL", "OrAX", "OIb", "OIz", "OIbv", "OJz", "OJb",
     "OMb", "OMw", "OMd", "OFPEnv", "OFPEnvLow", "OSimdState"}

\* Memory operands with and without a segment override, on every kind of base.
TCMemories ==
    Memories \cup
    {Mem("Mem32", "DS", "Md", "Ebp", None, 0, NoneV),
     Mem("Mem32", "DS", "Mw", "Esp", None, 0, NoneV),
     Mem("Mem32", "GS", "Mb", "Esp", None, 0, <<0, 8>>),
     Mem("Mem16", "SS", "Mw", "Bp", "Si", 0, NoneV),
     Mem("Mem16", "SS", "Mw", "Bx", None, 0, NoneV),
     Mem("Mem16", "CS", "Mb", "Bp", None, 0, <<0, 2>>)}

\* Immediates around the values where sign extension of a byte stops working.
TCImmediates ==
    {Imm("Ib", <<0, 0>>), Imm("Ib", <<0, 127>>), Imm("Ib", <<0, 128>>), Imm("Ib", <<0, 255>>)}
    \cup {Imm("Iw", v) : v \in {x \in UNION {Near(<<0, a>>) :
                                     a \in {0, 128, W8, W16 - 128, W16 - 1}} : x[1] = 0}}
    \cup {Imm("Id", v) : v \in UNION {Near(x) :
                                     x \in {<<0, 0>>, <<0, 128>>, <<0, W16 - 128>>,
                                            <<1, 0>>, <<W16 - 1, 0>>,
                                            <<W16 - 1, W16 - 128>>, <<W16 - 1, W16 - 1>>}}}

TCOperands ==
    Registers \cup TCMemories \cup TCImmediates \cup {JccTarget(<<0, 256>>, <<0, 5>>)}

\* TestX86TypeCheckerRandomly.one_iteration: res = self.tc.check(aop, opnd) on
\* the type checker the test class keeps from one iteration to the next.
Check(aop, opnd) ==
    /\ check_sizes' = CheckSizes(aop)
    /\ eres' = [op |-> "check", aop |-> aop, opnd |-> opnd, before |-> check_sizes,
                ti |-> check(aop, opnd)]
    /\ UNCHANGED <<svars, mt, encoder>>

DoCheck ==
    /\ eres = NoEncoderOp
    /\ \E aop \in TCAops : \E opnd \in TCOperands : Check(aop, opnd)

\* Operand tuples and lists of abstract operand types of the same length.
TupleOperands ==
    {Reg("Gw", "Ax"), Reg("Gd", "Eax"), Reg("Gb", "Cl"),
     Mem("Mem32", "DS", "Md", "Eax", None, 0, NoneV),
     Mem("Mem32", "ES", "Md", "Eax", "Ecx", 1, <<0, 256>>),
     Mem("Mem32", "FS", "Mw", None, None, 0, <<4660, 22136>>),
     Mem("Mem32", "FS", "Md", "Ebp", None, 0, NoneV),
     Mem("Mem16", "DS", "Mw", "Bx", "Si", 0, NoneV),
     Mem("Mem16", "ES", "Md", "Bx", "Si", 0, NoneV),
     Imm("Iw", <<0, 5>>), Imm("Id", <<0, 5>>)}

TupleAops ==
    {<<"OEv">>, <<"OIz">>, <<"OMd">>,
     <<"OEv", "OGv">>, <<"OGv", "OEv">>, <<"OEv", "OEv">>, <<"OEv", "OIz">>,
     <<"OEb", "OGb">>, <<"OMd", "OMw">>,
     <<"OGv", "OEv", "OIz">>, <<"OEv", "OEv", "OEv">>, <<"OEv", "OGv", "OIbv">>}

MaxOps == 3

Tuples(n) == [1..n -> TupleOperands]

\* self.tc.TypeCheckInstruction_exn(instr, aops)
TypeCheckInstruction(ops, aops) ==
    \E r \in {TypeCheckInstruction_exn(Instruction("Add", ops), aops)} :
        /\ check_sizes' = check_sizes_after(check_sizes, Instruction("Add", ops), aops)
        /\ eres' = [op |-> "TypeCheckInstruction_exn", ops |-> ops, aops |-> aops,
                    before |-> check_sizes, exc |-> r.exc, val |-> r.val]
        /\ UNCHANGED <<svars, mt, encoder>>

DoTypeCheckInstruction ==
    /\ eres = NoEncoderOp
    /\ \E n \in 0..MaxOps : \E ops \in Tuples(n) :
           \E aops \in {a \in TupleAops \cup {<<>>} : Len(a) \in {n - 1, n, n + 1}} :
               TypeCheckInstruction(ops, aops)

\* The next iteration starts: the result is dropped, the type checker stays.
NextIteration ==
    /\ eres # NoEncoderOp
    /\ eres' = NoEncoderOp
    /\ UNCHANGED <<svars, mt, encoder, check_sizes>>

InitTC ==
    /\ bytes = <<>>
    /\ pos = 0
    /\ origpos = 0
    /\ sres = NoStreamOp
    /\ ncalls = 0
    /\ mt = NoTest
    /\ encoder = NewEncoder
    /\ eres = NoEncoderOp
    /\ check_sizes = None

NextTC == DoCheck \/ DoTypeCheckInstruction \/ NextIteration

SpecTC == InitTC /\ [][NextTC]_vars

----------------------------------------------------------------------------
(* The decoder on byte sequences with runs of prefixes                     *)

\* Step 5 of decoding: the group-1 prefix reported is the top of the stack.
group1_prefix(instr) ==
    IF instr.prefixes = <<>> THEN None ELSE instr.prefixes[Len(instr.prefixes)]

\* Prefix bytes of each class, and what follows them.
PrefixBytes == {240, 242, 243, 102, 103, 38, 100}

MaxPrefixes == 3

PrefixRuns == UNION {[1..n -> PrefixBytes] : n \in 0..MaxPrefixes}

Bodies == {<<1, 8>>, <<144>>, <<152>>, <<55>>}

\* A run of n equal prefix bytes, n around the cap of Byte().
LongRuns == {[i \in 1..n |-> b] : n \in (ByteCap - 1)..(ByteCap + 1), b \in {102, 243}}

\* X86Decoder(StreamObj(pfx \o body)).Decode(0)
DecodeBytes(pfx, body) ==
    \E r \in {Decode(pfx \o body, <<0, 0>>)} :
        /\ eres' = [op |-> "Decode", pfx |-> pfx, body |-> body, exc |-> r.exc,
                    instr |-> r.instr, len |-> r.len]
        /\ UNCHANGED <<svars, mt, encoder, check_sizes>>

DoDecodeBytes ==
    /\ eres = NoEncoderOp
    /\ \E pfx \in PrefixRuns \cup LongRuns : \E body \in Bodies : DecodeBytes(pfx, body)

InitDec ==
    /\ bytes = <<>>
    /\ pos = 0
    /\ origpos = 0
    /\ sres = NoStreamOp
    /\ ncalls = 0
    /\ mt = NoTest
    /\ encoder = NewEncoder
    /\ eres = NoEncoderOp
    /\ check_sizes = None

\* The legacy opcodes, each followed by operand bytes: a ModR/M byte that
\* refers to memory for BOUND, LES, LDS, any ModR/M for ARPL and for the eight
\* members of group 0x82, the immediate 0A for AAM and AAD.
LegacyBodies ==
    {<<opc>> : opc \in {6, 7, 14, 22, 23, 30, 31, 39, 47, 55, 63, 96, 97, 214}}
    \cup {<<98, 8>>, <<98, 69, 16>>, <<99, 200>>, <<99, 8>>, <<196, 8>>, <<197, 8>>,
          <<197, 69, 16>>, <<212, 10>>, <<213, 10>>}
    \cup {<<130, 192 + 8 * ggg, 5>> : ggg \in 0..7}
    \cup {<<130, 8 * ggg, 127>> : ggg \in 0..7}

\* Prefixes in front of a legacy opcode: none, operand size, address size, segment.
LegacyPrefixes == {<<>>, <<102>>, <<103>>, <<38>>, <<102, 103>>}

DoDecodeLegacy ==
    /\ eres = NoEncoderOp
    /\ \E pfx \in LegacyPrefixes : \E body \in LegacyBodies : DecodeBytes(pfx, body)

NextDec == DoDecodeBytes \/ DoDecodeLegacy

SpecDec == InitDec /\ [][NextDec]_vars

\* The outcome of a decoding, without the number of bytes read.
Outcome(r) ==
    [exc |-> r.exc, pf |-> group1_prefix(r.instr), mnem |-> r.instr.mnem, ops |-> r.instr.ops]

DecodedAs(pfx, body) == Outcome(Decode(pfx \o body, <<0, 0>>))

ClassOf(b) ==
    CASE b \in {240, 242, 243} -> "group1" [] b = 102 -> "size" [] b = 103 -> "addr"
      [] OTHER -> "segment"

\* The runs made of the bytes of p with the prefixes of each class in p's order.
Reorderings(p) ==
    LET n == Len(p)
        Keeps(f) ==
            /\ \A i, j \in 1..n : (i # j) => (f[i] # f[j])
            /\ \A i, j \in 1..n :
                   (i < j /\ ClassOf(p[f[i]]) = ClassOf(p[f[j]])) => (f[i] < f[j])
    IN  {[i \in 1..n |-> p[f[i]]] : f \in {g \in [1..n -> 1..n] : Keeps(g)}}

\* The runs p without one byte that p repeats later.
WithoutRepeated(p) ==
    {SubSeq(p, 1, i - 1) \o SubSeq(p, i + 1, Len(p)) :
        i \in {k \in 1..Len(p) : \E j \in (k + 1)..Len(p) : p[j] = p[k]}}

\* The last byte of p among bs (0 if there is none).
LastOf(p, bs) ==
    LET at == {i \in 1..Len(p) : p[i] \in bs}
    IN  IF at = {} THEN 0 ELSE p[CHOOSE i \in at : \A j \in at : j <= i]

\* The outcome is the same for every reordering of the prefixes that keeps the
\* order within each class, and with a repeated prefix left out.
OrderAndRepetitionIgnored ==
    (eres.op = "Decode" /\ Len(eres.pfx) <= MaxPrefixes)
    => \A q \in Reorderings(eres.pfx) \cup WithoutRepeated(eres.pfx) :
           DecodedAs(q, eres.body) = Outcome(eres)

\* A memory operand decoded after segment overrides has the segment of the last.
LastSegmentWins ==
    (eres.op = "Decode" /\ eres.exc = "none" /\ LastOf(eres.pfx, {38, 100}) # 0)
    => \A i \in 1..Len(eres.instr.ops) :
           IsMemExpr(eres.instr.ops[i])
           => eres.instr.ops[i].seg = IF LastOf(eres.pfx, {38, 100}) = 38 THEN "ES" ELSE "FS"

\* The group-1 prefix reported is the last of F0, F2, F3 read.
LastGroup1Reported ==
    (eres.op = "Decode" /\ eres.exc = "none")
    => group1_prefix(eres.instr)
         = CASE LastOf(eres.pfx, {240, 242, 243}) = 240 -> "LOCK"
             [] LastOf(eres.pfx, {240, 242, 243}) = 242 -> "REPNE"
             [] LastOf(eres.pfx, {240, 242, 243}) = 243 -> "REP"
             [] OTHER -> None

C18_DecodeTotal ==
    (eres.op = "Decode")
    => /\ eres.exc \in {"none", "InvalidInstruction"}
       /\ (Len(eres.pfx) > 15) => (eres.exc = "InvalidInstruction")

\* C12: when every operand matches its abstract operand type, the per-operand
\* results are combined field by field (size, address, segment): two operands
\* that constrain one field to different values make TypeCheckInstruction_exn
\* raise X86TypeCheckError; otherwise the result reports, per field, the one
\* value the operands constrain it to, and no prefix (False, False, None) for
\* a field no operand constrains.
C12_FieldwiseCombination ==
    (eres.op = "TypeCheckInstruction_exn" /\ Len(eres.aops) = Len(eres.ops)
        /\ Len(eres.ops) > 0)
    => LET Info(i) == check(eres.aops[i], eres.ops[i])
           Vals(f) == {Info(i)[f] : i \in 1..Len(eres.ops)} \ {None}
           One(f) == IF Vals(f) = {} THEN None ELSE CHOOSE v \in Vals(f) : TRUE
       IN  (\A i \in 1..Len(eres.ops) : Info(i).ok)
           => IF \E f \in {"sizeo", "addro", "sego"} : Cardinality(Vals(f)) > 1
              THEN eres.exc = "X86TypeCheckError"
              ELSE /\ eres.exc = "none"
                   /\ eres.val = <<One("sizeo") = "True", One("addro") = "True",
                                   One("sego")>>

\* Two memory operands that each match OEv but name different segments.
C12_Witness ==
    /\ eres.op = "TypeCheckInstruction_exn"
    /\ eres.aops = <<"OEv", "OEv">>
    /\ Len(eres.ops) = 2
    /\ check("OEv", eres.ops[1]).sego = "ES"
    /\ check("OEv", eres.ops[2]).sego = "FS"
    /\ check("OEv", eres.ops[1]).sizeo = check("OEv", eres.ops[2]).sizeo
    /\ check("OEv", eres.ops[1]).addro = check("OEv", eres.ops[2]).addro
    /\ eres.exc = "X86TypeCheckError"

\* C13: for a memory operand accepted by an abstract operand type with a
\* RegOrMem element, the TypeCheckInfo returned has the segment override set,
\* to the operand's segment, iff that segment is not the operand's default
\* segment (SS for a base of ESP, EBP, SP or BP, DS otherwise), and the address
\* override true iff the operand is a Mem16; an operand that needs the size
\* prefix (a 16-bit memory under OEv) or the address prefix (a Mem16) is never
\* reported with that field False.
C13_MemoryOverrides ==
    (eres.op = "check" /\ IsMemExpr(eres.opnd) /\ eres.ti.ok)
    => LET op == eres.opnd
           dflt == IF op.base \in {"Esp", "Ebp", "Sp", "Bp"} THEN "SS" ELSE "DS"
       IN  /\ (eres.ti.sego # None) <=> (op.seg # dflt)
           /\ (eres.ti.sego # None) => (eres.ti.sego = op.seg)
           /\ (eres.ti.addro = "True") <=> (op.k = "Mem16")
           /\ (op.k = "Mem16") => (eres.ti.addro # "False")
           /\ (eres.aop = "OEv" /\ op.size = "Mw") => (eres.ti.sizeo # "False")

\* A 16-bit memory through ES, addressed by BX+SI, accepted by OEv.
C13_Witness ==
    /\ eres.op = "check"
    /\ eres.aop = "OEv"
    /\ eres.opnd = Mem("Mem16", "ES", "Mw", "Bx", "Si", 0, NoneV)
    /\ eres.ti = TypeCheckInfo("True", "True", "ES")

\* C14: the sign-extended-immediate check (OIbv) accepts an Iw iff its value is
\* in [0, 0x7F] or [0xFF80, 0xFFFF], an Id iff its value is in [0, 0x7F] or
\* [0xFFFFFF80, 0xFFFFFFFF]; every other value and every operand of another
\* class is rejected.
C14_SignExtImmRanges ==
    (eres.op = "check" /\ eres.aop = "OIbv")
    => LET op == eres.opnd
           InIw == op.k = "Iw" /\ op.v[1] = 0
                   /\ (op.v[2] \in 0..127 \/ op.v[2] \in 65408..65535)
           InId == op.k = "Id"
                   /\ \/ op.v[1] = 0 /\ op.v[2] \in 0..127
                      \/ op.v[1] = 65535 /\ op.v[2] \in 65408..65535
       IN  eres.ti.ok <=> (InIw \/ InId)

\* The 16-bit immediate 0xFF80 is accepted, with the size prefix.
C14_Witness ==
    /\ eres.op = "check"
    /\ eres.aop = "OIbv"
    /\ eres.opnd = Imm("Iw", <<0, 65408>>)
    /\ eres.ti = TypeCheckInfo("True", None, None)

\* C15: in any sequence of check(aop, operand) calls on one type checker, a
\* memory operand is accepted whatever its size when aop is OFPEnv, OFPEnvLow
\* or OSimdState, and is rejected by every other memory-accepting abstract
\* operand type whose memory size differs from the operand's, whatever
\* check_sizes the earlier calls left behind.
C15_LenientSizesPerCall ==
    (eres.op = "check" /\ IsMemExpr(eres.opnd))
    => LET sizes == CASE eres.aop = "OEb" -> {"Mb"}
                      [] eres.aop = "OEv" -> {"Mw", "Md"}
                      [] eres.aop = "OMb" -> {"Mb"}
                      [] eres.aop = "OMw" -> {"Mw"}
                      [] eres.aop = "OMd" -> {"Md"}
                      [] OTHER -> {}
       IN  /\ eres.before \in {None, "True", "False"}
           /\ (eres.aop \in {"OFPEnv", "OFPEnvLow", "OSimdState"}) => eres.ti.ok
           /\ (sizes # {} /\ eres.opnd.size \notin sizes) => ~eres.ti.ok

\* After a call with a lenient type, OMd still rejects a 16-bit memory.
C15_Witness ==
    /\ eres.op = "check"
    /\ eres.before = "False"
    /\ eres.aop = "OMd"
    /\ IsMemExpr(eres.opnd)
    /\ eres.opnd.size = "Mw"
    /\ ~eres.ti.ok
    /\ check_sizes = "True"

----------------------------------------------------------------------------
(* The decoder's table lookup on every opcode                              *)

\* Steps 2 and 3 of decoding: the prefix loop, then the reduction of
\* decoding_table[opcode] to an entry that selects no other.
Lookup(bs) ==
    LET Opcode(d1) ==
            IF d1.exc # "none" THEN [d |-> d1, entry |-> Invalid, path |-> <<>>]
            ELSE ReducePath(d1, decoding_table_entries[d1.opc + 1], <<>>)
    IN  Opcode(DecodePrefixes(NewDecoder(bs, <<0, 0>>)))

\* Prefix runs in front of the opcode, and opcodes: one byte, or one byte
\* after 0F, 0F 38, 0F 3A.
LookupPrefixes ==
    {<<>>, <<102>>, <<103>>, <<243>>, <<242>>, <<240>>, <<102, 243>>, <<240, 242>>}

Stems ==
    {<<b>> : b \in 0..255} \cup {<<15, b>> : b \in 0..255}
    \cup {<<15, 56, b>> : b \in 0..255} \cup {<<15, 58, b>> : b \in 0..255}

\* A ModR/M byte with the bytes of the longest SIB and displacement after it.
ModRMTails == {<<m, 0, 0, 0, 0, 0>> : m \in 0..255}

\* The lookup on bs; eres keeps the decoder's flags, the normalised opcode,
\* the entry reached and the entries passed.
LookupBytes(bs) ==
    \E r \in {Lookup(bs)} :
        /\ eres' = [op |-> "Lookup", bs |-> bs, exc |-> r.d.exc, opc |-> r.d.opc,
                    entry |-> r.entry, path |-> r.path, sizepfx |-> r.d.sizepfx,
                    addrpfx |-> r.d.addrpfx,
                    mod |-> IF r.d.modrm.kind = None THEN None ELSE r.d.modrm.m.MOD]
        /\ UNCHANGED <<svars, mt, encoder, check_sizes>>

\* An opcode alone when the lookup needs no further byte, with a ModR/M
\* after it when the lookup reads one.
DoLookup ==
    /\ eres = NoEncoderOp
    /\ \E pfx \in LookupPrefixes : \E stem \in Stems :
           IF Lookup(pfx \o stem).d.exc = "IndexError"
           THEN \E tail \in ModRMTails : LookupBytes(pfx \o stem \o tail)
           ELSE LookupBytes(pfx \o stem)

InitTable ==
    /\ bytes = <<>>
    /\ pos = 0
    /\ origpos = 0
    /\ sres = NoStreamOp
    /\ ncalls = 0
    /\ mt = NoTest
    /\ encoder = NewEncoder
    /\ eres = NoEncoderOp
    /\ check_sizes = None

NextTable == DoLookup

SpecTable == InitTable /\ [][NextTable]_vars

\* The normalised opcodes of the bytes the prefix loop takes for itself: the
\* prefixes and 0F, and 38 and 3A after 0F.
ConsumedOpcodes ==
    {15, 38, 46, 54, 62, 100, 101, 102, 103, 240, 242, 243, 256 + 56, 256 + 58}

\* The entries an entry holds.
SubEntries(entry) ==
    IF entry.t \in {"Group", "RMGroup"} THEN {entry.entries[i] : i \in 1..8}
    ELSE IF entry.t \in {"PredOpSize", "PredAddrSize", "PredMOD"}
    THEN {entry.overridden, entry.regular}
    ELSE IF entry.t = "SSE" THEN {entry.no, entry.rep, entry.size, entry.repne}
    ELSE {}

\* The entries held at any depth inside an entry.
RECURSIVE Nested(_)
Nested(entry) ==
    SubEntries(entry) \cup UNION {Nested(e) : e \in SubEntries(entry)}

\* The positions of the table that hold Fatal, and those that hold an entry
\* with Fatal inside.
FatalPositions == {i \in 0..1023 : decoding_table_entries[i + 1] = Fatal}

FatalNested == {i \in 0..1023 : Fatal \in Nested(decoding_table_entries[i + 1])}

\* The entries held inside an entry outside the regular entry of any PredMOD.
RECURSIVE OutsideRegular(_)
OutsideRegular(entry) ==
    LET Held(sub) == sub \cup UNION {OutsideRegular(e) : e \in sub}
    IN  Held(IF entry.t = "PredMOD" THEN {entry.overridden} ELSE SubEntries(entry))

\* The positions of the table with an RMGroup that is not inside the regular
\* entry of a PredMOD.
RMGroupsOutsidePredMOD ==
    LET Bad(top) == \E e \in {top} \cup OutsideRegular(top) : e.t = "RMGroup"
    IN  {i \in 0..1023 : Bad(decoding_table_entries[i + 1])}

\* The positions of the table that hold an RMGroup at any depth.
RMGroupPositions ==
    {i \in 0..1023 : \E e \in Nested(decoding_table_entries[i + 1]) : e.t = "RMGroup"}

\* C25: decoding never dispatches to a Fatal entry: Fatal stands in the
\* decoding table only at the top-level positions of the bytes the prefix loop
\* consumes as prefix or escape (0F, 26, 2E, 36, 3E, 64, 65, 66, 67, F0, F2,
\* F3, and 38 and 3A after 0F), never inside a Group, RMGroup, SSE or
\* Predicated entry, and no lookup ends at such a position.
C25_FatalNeverReached ==
    /\ FatalPositions = ConsumedOpcodes
    /\ FatalNested = {}
    /\ (eres.op = "Lookup")
       => /\ eres.entry # Fatal
          /\ (eres.exc = "none") => (eres.opc \notin ConsumedOpcodes)

\* 66 0F 38 00: the bytes 66, 0F and 38 are consumed and the lookup is in the
\* map after 0F 38, through an SSE entry.
C25_Witness ==
    /\ eres.op = "Lookup"
    /\ eres.bs = <<102, 15, 56, 0>>
    /\ eres.exc = "none"
    /\ eres.opc = 512
    /\ eres.entry.t = "Direct"
    /\ eres.entry.mnem = "Pshufb"

----------------------------------------------------------------------------
(* Calls of EncodeInstruction, one after the other, on one encoder         *)

\* Instructions and addresses of the calls: every kind of prefix, ModR/M and
\* immediate, jumps whose bytes depend on the address, and instructions that
\* no encoding accepts or whose encoding raises.
ReuseInputs ==
    ({Instruction(m, <<>>) : m \in {"Aaa", "Cbw", "Cwde"}}
     \cup {Instruction("Add", <<x, y>>) :
               x \in Registers \cup Memories,
               y \in {Reg("Gd", "Ecx"), Reg("Gb", "Al"), Reg("Gw", "Bx"),
                      Imm("Ib", <<0, 127>>), Imm("Iw", <<0, 4660>>),
                      Imm("Id", <<4660, 22136>>)}}) \X {<<0, 0>>}
    \cup {<<JumpAt(m[1], t, a, m[2]), a>> :
              m \in {<<"Jmp", 5>>, <<"Jz", 6>>},
              t \in {<<0, 256>>, <<W16 - 1, W16 - 1>>}, a \in Addresses}

\* self.encoder.EncodeInstruction(instr, a); prev is how the call before ended.
CallEncodeInstruction(instr, a) ==
    \E r \in {EncodeInstructionOn(encoder, instr, a)} :
        /\ encoder' = Members(r.e)
        /\ eres' = [op |-> "EncodeInstruction", instr |-> instr, addr |-> a,
                    exc |-> r.exc, out |-> r.out,
                    prev |-> IF eres.op = "none" THEN "nocall" ELSE eres.exc]
        /\ check_sizes' = EncoderCheckSizes(check_sizes, instr, r.chosen)
        /\ UNCHANGED <<svars, mt>>

DoCallEncodeInstruction == \E ia \in ReuseInputs : CallEncodeInstruction(ia[1], ia[2])

InitReuse ==
    /\ bytes = <<>>
    /\ pos = 0
    /\ origpos = 0
    /\ sres = NoStreamOp
    /\ ncalls = 0
    /\ mt = NoTest
    /\ encoder = NewEncoder
    /\ eres = NoEncoderOp
    /\ check_sizes = None

NextReuse == DoCallEncodeInstruction

SpecReuse == InitReuse /\ [][NextReuse]_vars

\* C26: EncodeInstruction(i, a) depends on i and a only: on one encoder,
\* after any sequence of earlier calls, successful or failed, the call returns
\* the bytes, or fails the way, of the call on a new encoder, and leaves the
\* encoder's members as that call leaves them.
C26_EncodeInstructionStateless ==
    (eres.op = "EncodeInstruction")
    => \E f \in {EncodeInstruction(eres.instr, eres.addr)} :
           /\ eres.exc = f.exc
           /\ eres.out = f.out
           /\ encoder = Members(f.e)

\* ADD ECX, 12345678h after a call that failed with InvalidInstruction:
\* the same six bytes as on a new encoder.
C26_Witness ==
    /\ eres.op = "EncodeInstruction"
    /\ eres.prev = "InvalidInstruction"
    /\ eres.instr = Instruction("Add", <<Reg("Gd", "Ecx"), Imm("Id", <<4660, 22136>>)>>)
    /\ eres.exc = "none"
    /\ eres.out = <<129, 193, 120, 86, 52, 18>>

\* C27: a Predicated entry decodes its overridden entry if and only if its
\* condition holds, and its regular entry otherwise; the condition is "66 was
\* seen" for PredOpSize, "67 was seen" for PredAddrSize and "the ModR/M refers
\* to memory (MOD is not 11)" for PredMOD.  Opcode 60 gives PUSHAW with 66 and
\* PUSHAD without, opcode E3 gives JCXZ with 67 and JECXZ without.
C27_PredicatedDispatch ==
    (eres.op = "Lookup" /\ eres.exc = "none")
    => /\ \A k \in 1..Len(eres.path) :
              /\ (eres.path[k].entry.t = "PredOpSize")
                 => eres.path[k].to = IF eres.sizepfx THEN eres.path[k].entry.overridden
                                      ELSE eres.path[k].entry.regular
              /\ (eres.path[k].entry.t = "PredAddrSize")
                 => eres.path[k].to = IF eres.addrpfx THEN eres.path[k].entry.overridden
                                      ELSE eres.path[k].entry.regular
              /\ (eres.path[k].entry.t = "PredMOD")
                 => eres.path[k].to = IF eres.mod # 3 THEN eres.path[k].entry.overridden
                                      ELSE eres.path[k].entry.regular
       /\ (eres.opc = 96)
          => eres.entry = Direct(IF eres.sizepfx THEN "Pushaw" ELSE "Pushad", <<>>)
       /\ (eres.opc = 227)
          => eres.entry = Direct(IF eres.addrpfx THEN "Jcxz" ELSE "Jecxz", <<"OJb">>)

\* 67 E3: the PredAddrSize entry of opcode E3 gives JCXZ.
C27_Witness ==
    /\ eres.op = "Lookup"
    /\ eres.bs = <<103, 227>>
    /\ eres.exc = "none"
    /\ Len(eres.path) = 1
    /\ eres.path[1].entry.t = "PredAddrSize"
    /\ eres.entry = Direct("Jcxz", <<"OJb">>)

\* C28: an RMGroup entry is dispatched on R/M only when MOD is 11: in the
\* decoding table every RMGroup stands in the regular (register) branch of a
\* PredMOD, so no byte sequence whose ModR/M refers to memory reaches an RMGroup.
C28_RMGroupOnlyRegister ==
    /\ RMGroupsOutsidePredMOD = {}
    /\ RMGroupPositions # {}
    /\ (eres.op = "Lookup")
       => \A k \in 1..Len(eres.path) :
              (eres.path[k].entry.t = "RMGroup")
              => /\ eres.path[k].mod = 3
                 /\ \E j \in 1..(k - 1) :
                        /\ eres.path[j].entry.t = "PredMOD"
                        /\ eres.path[j].to = eres.path[j].entry.regular

\* 0F 01 C8: group 7, register form, R/M 0 of the RMGroup of GGG 1: MONITOR.
C28_Witness ==
    /\ eres.op = "Lookup"
    /\ eres.bs = <<15, 1, 200, 0, 0, 0, 0, 0>>
    /\ eres.exc = "none"
    /\ eres.mod = 3
    /\ Len(eres.path) = 3
    /\ eres.path[3].entry.t = "RMGroup"
    /\ eres.entry.mnem = "Monitor"

\* C29: a candidate whose list of abstract operand types is not as long as
\* the instruction's list of operands is rejected as a type mismatch before
\* any operand is checked (check_sizes, which every check of an operand
\* assigns, is left as it was); an instruction without operands checked
\* against the empty list is accepted with no size prefix, no address prefix
\* and no segment override.
C29_LengthMismatchAndNoOperands ==
    (eres.op = "TypeCheckInstruction_exn")
    => /\ (Len(eres.aops) # Len(eres.ops))
          => /\ eres.exc = "X86TypeCheckError"
             /\ check_sizes = eres.before
       /\ (eres.aops = <<>> /\ eres.ops = <<>>)
          => /\ eres.exc = "none"
             /\ eres.val = <<FALSE, FALSE, None>>
             /\ check_sizes = eres.before

\* EAX, [EAX] against the one-element list OEv, which EAX alone matches, on a
\* type checker that has checked no operand yet.
C29_Witness ==
    /\ eres.op = "TypeCheckInstruction_exn"
    /\ eres.ops = <<Reg("Gd", "Eax"), Mem("Mem32", "DS", "Md", "Eax", None, 0, NoneV)>>
    /\ eres.aops = <<"OEv">>
    /\ TypeCheckInstruction_exn(Instruction("Add", <<Reg("Gd", "Eax")>>), <<"OEv">>).exc = "none"
    /\ eres.exc = "X86TypeCheckError"
    /\ eres.before = None
    /\ check_sizes = None

\* C21: none of the one-byte opcodes 06, 07, 0E, 16, 17, 1E, 1F, 27, 2F, 37,
\* 3F, 60, 61, 62, 63, 82, C4, C5, D4, D5, D6 has an Invalid or Fatal entry in
\* the decoding table, and each of them, followed by well-formed operand bytes
\* (0A after D4 and D5), decodes to an instruction.
C21_LegacyOpcodesDecode ==
    /\ \A opc \in LegacyOpcodes :
           /\ decoding_table_entries[opc + 1].t \notin {"Invalid", "Fatal"}
           /\ DirectOf(decoding_table_entries[opc + 1]) # {}
    /\ (eres.op = "Decode" /\ eres.body \in LegacyBodies /\ eres.pfx \in LegacyPrefixes)
       => /\ eres.exc = "none"
          /\ eres.instr.mnem # None
          /\ eres.len = Len(eres.pfx) + Len(eres.body)

\* 66 D4 0A decodes to AAM 0Ah, three bytes long.
C21_Witness ==
    /\ eres.op = "Decode"
    /\ eres.pfx = <<102>>
    /\ eres.body = <<212, 10>>
    /\ eres.exc = "none"
    /\ eres.instr.mnem = "Aam"
    /\ eres.instr.ops = <<Imm("Ib", <<0, 10>>)>>
    /\ eres.len = 3

\* C22: a successful Word() returns b0 + 256 * b1 and a successful Dword()
\* returns b0 + 2^8 * b1 + 2^16 * b2 + 2^24 * b3 (here the pair of its 16-bit
\* halves), b0, b1, ... being the bytes at the position of the call and after
\* it; Word() advances the position by exactly 2 and Dword() by exactly 4.
C22_WordDwordLittleEndian ==
    /\ (sres.op = "Word" /\ sres.exc = "none")
       => /\ sres.val = bytes[sres.before + 1] + W8 * bytes[sres.before + 2]
          /\ pos = sres.before + 2
    /\ (sres.op = "Dword" /\ sres.exc = "none")
       => /\ sres.val = <<bytes[sres.before + 3] + W8 * bytes[sres.before + 4],
                          bytes[sres.before + 1] + W8 * bytes[sres.before + 2]>>
          /\ pos = sres.before + 4

\* A Dword() read at position 3, after a Byte() and a Word().
C22_Witness ==
    /\ sres.op = "Dword"
    /\ sres.exc = "none"
    /\ sres.before = 3
    /\ ncalls = 7
    /\ pos = 7
    /\ bytes = StreamBytes(1)
    /\ SubSeq(bytes, 4, 7) = <<245, 26, 63, 100>>
    /\ sres.val = <<63 + 256 * 100, 245 + 256 * 26>>

\* The group-1 prefixes of a run of prefix bytes, oldest first.
Group1Stack(p) ==
    LET at == {i \in 1..Len(p) : p[i] \in {240, 242, 243}}
        Nth(n) == CHOOSE i \in at : Cardinality({j \in at : j <= i}) = n
    IN  [n \in 1..Cardinality(at) |-> PF1OfByte(p[Nth(n)])]

\* The entry the dispatch is to select: scanning the stack from the newest
\* prefix, the first REP or REPNE whose entry is not Invalid; without one, the
\* size entry when 66 was seen and it is not Invalid, else the prefixless one.
RECURSIVE SSESelection(_, _, _)
SSESelection(stack, size, entry) ==
    LET top == stack[Len(stack)]
    IN  IF stack = <<>>
        THEN IF size /\ entry.size.t # "Invalid" THEN entry.size ELSE entry.no
        ELSE IF top = "REP" /\ entry.rep.t # "Invalid" THEN entry.rep
        ELSE IF top = "REPNE" /\ entry.repne.t # "Invalid" THEN entry.repne
        ELSE SSESelection(SubSeq(stack, 1, Len(stack) - 1), size, entry)

\* A decoding through an SSE entry, of an opcode behind a short run of prefixes.
SSEDecoded ==
    /\ eres.op = "Decode"
    /\ Len(eres.pfx) <= MaxPrefixes
    /\ decoding_table(eres.body[1]).t = "SSE"

\* C23: an SSE entry selects, scanning the group-1 prefixes from the most
\* recently read backwards, the rep entry at the first REP whose rep entry is
\* not Invalid and the repne entry at the first REPNE whose repne entry is not
\* Invalid; when no group-1 prefix applies (none read, only LOCK, only
\* prefixes whose entry is Invalid) it selects the size entry if 66 was seen
\* and the size entry is not Invalid, and the prefixless entry otherwise.
C23_SSEDispatch ==
    SSEDecoded
    => \E sel \in {SSESelection(Group1Stack(eres.pfx), \E i \in 1..Len(eres.pfx) : eres.pfx[i] = 102,
                                decoding_table(eres.body[1]))} :
           IF sel.t = "Direct" THEN eres.exc = "none" /\ eres.instr.mnem = sel.mnem
           ELSE eres.exc = "InvalidInstruction"

\* The index in the stack of the prefix the dispatch uses, 0 if it uses none.
SSEUsed(stack, entry) ==
    LET applies == {i \in 1..Len(stack) :
                       \/ stack[i] = "REP" /\ entry.rep.t # "Invalid"
                       \/ stack[i] = "REPNE" /\ entry.repne.t # "Invalid"}
    IN  IF applies = {} THEN 0 ELSE CHOOSE i \in applies : \A j \in applies : j <= i

\* The stack without its element i (whole for i = 0).
StackWithout(stack, i) ==
    IF i = 0 THEN stack ELSE SubSeq(stack, 1, i - 1) \o SubSeq(stack, i + 1, Len(stack))

\* C24: SSE dispatch takes from the decoder's group-1 prefixes only the one it
\* used; the others (a LOCK, an earlier REP or REPNE, all of them when it falls
\* back to the size or prefixless entry) stay, and the last of them is
\* reported as the instruction's group-1 prefix.
C24_SSEKeepsUnusedPrefixes ==
    (SSEDecoded /\ eres.exc = "none")
    => \E st \in {Group1Stack(eres.pfx)} :
           eres.instr.prefixes = StackWithout(st, SSEUsed(st, decoding_table(eres.body[1])))

\* C24, amended: SSE dispatch leaves none of the group-1 prefixes read: the
\* instruction decoded through an SSE entry has no group-1 prefix, whichever
\* prefix the dispatch used and whichever it did not use.
C24_Amended ==
    (SSEDecoded /\ eres.exc = "none")
    => /\ eres.instr.prefixes = <<>>
       /\ group1_prefix(eres.instr) = None

\* F0 F3 90: REP selects PAUSE, and the unused LOCK is not reported.
C24_Witness ==
    /\ eres.op = "Decode"
    /\ eres.pfx = <<240, 243>>
    /\ eres.body = <<144>>
    /\ eres.exc = "none"
    /\ eres.instr.mnem = "Pause"
    /\ group1_prefix(eres.instr) = None

----------------------------------------------------------------------------
(* The encode table against the decode table                               *)

\* The byte sequences that carry a candidate's stem to the decoder: 66 in
\* front of the stem for Native16; after the stem of a ModRMGroup every
\* ModR/M byte whose GGG field is the group number, after another stem every
\* ModR/M byte when the lookup reads a byte the stem does not hold.
StemInputs(enc) ==
    LET Tails(bs) ==
            IF enc.cls = "ModRMGroup"
            THEN {bs \o <<64 * mod + 8 * enc.ggg + rm, 0, 0, 0, 0, 0>> :
                      mod \in 0..3, rm \in 0..7}
            ELSE IF Lookup(bs).d.exc = "IndexError"
            THEN {bs \o tail : tail \in ModRMTails}
            ELSE {bs}
    IN  Tails((IF enc.cls = "Native16" THEN <<102>> ELSE <<>>) \o enc.bytes)

\* The outcomes of the decoder's lookup on a candidate's stem: [exc, entry].
StemReaches(enc) ==
    {[exc |-> r.d.exc, entry |-> r.entry] : r \in {Lookup(bs) : bs \in StemInputs(enc)}}

\* Candidate number i of mnemonic mnem is followed through the decode table.
FollowStem(mnem, i) ==
    \E enc \in {EncodingsOf[mnem][i]} :
        /\ eres' = [op |-> "FollowStem", mnem |-> mnem, enc |-> enc,
                    reached |-> StemReaches(enc)]
        /\ UNCHANGED <<svars, mt, encoder, check_sizes>>

DoFollowStem ==
    /\ eres = NoEncoderOp
    /\ \E mnem \in EncodedMnemonics : \E i \in DOMAIN EncodingsOf[mnem] :
           FollowStem(mnem, i)

NextAgree == DoFollowStem

SpecAgree == InitTable /\ [][NextAgree]_vars

\* C30: every candidate of the encode table, other than the zero-operand
\* candidates of the mnemonics with both a zero-operand and an operand-bearing
\* form, leads through the decode table (66, F3, F2 in front of the stem as
\* prefixes, 0F, 0F 38, 0F 3A as escapes, the stem's last byte or the group
\* number as the ModR/M, 66 set for Native16) to a Direct entry with the
\* candidate's mnemonic and as many operand types as the candidate has.
C30_TablesAgree ==
    (/\ eres.op = "FollowStem"
     /\ ~(eres.mnem \in multi_operand_mnems /\ Len(eres.enc.ops) = 0))
    => \E r \in eres.reached :
           /\ r.exc = "none"
           /\ r.entry.t = "Direct"
           /\ r.entry.mnem = eres.mnem
           /\ Len(r.entry.ops) = Len(eres.enc.ops)

\* MOVHLPS at 0F 12 shares its opcode with MOVLPS: the register ModR/M bytes
\* reach it, the memory ones reach MOVLPS.
C30_Witness ==
    /\ eres.op = "FollowStem"
    /\ eres.mnem = "Movhlps"
    /\ eres.enc = Ordinary(<<15, 18>>, <<"OVq", "OUq">>)
    /\ [exc |-> "none", entry |-> Direct("Movhlps", <<"OVq", "OUq">>)] \in eres.reached
    /\ [exc |-> "none", entry |-> Direct("Movlps", <<"OVq", "OMq">>)] \in eres.reached

====
